---- MODULE Spec2Model ----
(***************************************************************************)
(* EventGo backend: the ticket / waitlist reassignment core.                *)
(*                                                                          *)
(* The relational store is modelled as five tables (tickets, transactions, *)
(* waitlist, ticket_types, events).  Every route handler is a pure          *)
(* operator from a database value to a database value plus a response;      *)
(* the actions of Spec apply one whole handler at a time.  The concurrent   *)
(* specifications (SpecAssign, SpecPurchase) split a handler at the points  *)
(* where the code awaits the store inside an explicit BEGIN ... COMMIT.     *)
(*                                                                          *)
(* Timestamps are minutes on the clock `now`.  Serial ids are never reused. *)
(* joined_at / issued_at default to the insertion time, so their order is   *)
(* the order of the serial ids; the model keeps joined_at as its own column *)
(* and orders tickets by id where the code orders by issued_at.             *)
(***************************************************************************)
EXTENDS Integers, Sequences, FiniteSets, TLC

\* ---------------------------------------------------------------- bounds
MaxTicketId == 4
MaxTxId == 4
MaxWaitlistId == 2
MaxTime == 60
TickMinutes == 30
MaxQuantity == 1
NumCalls == 3
NumBuyers == 2
NumSweepers == 2
NumJoins == 2
NumRefunds == 2
NumAccepts == 2
MaxAcceptTicketId == 5
MaxAcceptTxId == 6

\* ------------------------------------------------------ program constants
ReservationMinutes == 30

\* ------------------------------------------------------------ the fixture
\* One event with two ticket types, created through the (out of scope)
\* event / ticket-type CRUD routes before any ticket is sold.
Users == 1 .. 3
Buyers == {2}
Joiners == {2, 3}
Callers == {1, 2}
Events == {1}
TicketTypes == {1, 2}
Organizer == 1
NULL == 0 - 1

VARIABLES tickets, transactions, waitlist, ticket_types, events, next_id,
          now, last, procs

vars == <<tickets, transactions, waitlist, ticket_types, events, next_id,
          now, last, procs>>

\* The committed contents of the store, as one value.
DB ==
  [tickets |-> tickets, transactions |-> transactions, waitlist |-> waitlist,
   ticket_types |-> ticket_types, events |-> events, next_id |-> next_id]

Store(D) ==
  /\ tickets' = D.tickets
  /\ transactions' = D.transactions
  /\ waitlist' = D.waitlist
  /\ ticket_types' = D.ticket_types
  /\ events' = D.events
  /\ next_id' = D.next_id

\* ------------------------------------------------------------ row helpers
RowById(S, i) == CHOOSE r \in S : r.id = i

HasId(S, i) == \E r \in S : r.id = i

\* (mutant) ORDER BY joined_at DESC
EarliestJoined_Desc(S) == CHOOSE r \in S : \A o \in S : r.joined_at >= o.joined_at

\* ORDER BY joined_at ASC LIMIT 1
EarliestJoined(S) == CHOOSE r \in S : \A o \in S : r.joined_at <= o.joined_at

\* ORDER BY issued_at ASC LIMIT 1 (tickets are issued in id order)
OldestIssued(S) == CHOOSE r \in S : \A o \in S : r.id <= o.id

TypesOf(D, ev) == {tt \in DOMAIN D.ticket_types : D.ticket_types[tt].event_id = ev}

RECURSIVE SumSoldOver(_, _)
SumSoldOver(D, S) ==
  IF S = {} THEN 0
  ELSE LET x == CHOOSE y \in S : TRUE
       IN D.ticket_types[x].tickets_sold + SumSoldOver(D, S \ {x})

RECURSIVE SumTotalOver(_, _)
SumTotalOver(D, S) ==
  IF S = {} THEN 0
  ELSE LET x == CHOOSE y \in S : TRUE
       IN D.ticket_types[x].total_tickets + SumTotalOver(D, S \ {x})

\* SELECT COALESCE(SUM(tickets_sold),0) / SUM(total_tickets) FROM ticket_types
\* WHERE event_id = ev
SumSold(D, ev) == SumSoldOver(D, TypesOf(D, ev))

SumTotal(D, ev) == SumTotalOver(D, TypesOf(D, ev))

\* UPDATE events SET tickets_sold = (SELECT SUM ...), total_tickets = (...)
SyncEvent(D, ev) ==
  IF ev \in DOMAIN D.events
  THEN [D EXCEPT !.events[ev].tickets_sold = SumSold(D, ev),
                 !.events[ev].total_tickets = SumTotal(D, ev)]
  ELSE D

NoAssign == << >>

Rejections == {400, 403, 404, 409}

\* The response of the last completed request: the HTTP status, the error
\* class the status and message stand for, the assigned_to_waitlist /
\* waitlist_assigned / assigned_to_next flag, the ticket_offered flag, a
\* value (position, transaction_id, refund_amount or cleaned), the
\* platform_fee, and the results of the assignTicketToWaitlist calls the
\* request made, in order.
\* A rejected request (400, 403, 404, 409) is kept as its route, status and
\* error class only.
Resp(op, arg, caller, code, err) ==
  [op |-> op, arg |-> IF code \in Rejections THEN 0 ELSE arg,
   caller |-> IF code \in Rejections THEN 0 ELSE caller, code |-> code, err |-> err,
   assigned |-> FALSE, offered |-> FALSE, val |-> 0, fee |-> 0,
   asg |-> NoAssign]

\* ------------------------------------------------------------------ Init
Init ==
  /\ tickets = {}
  /\ transactions = {}
  /\ waitlist = {}
  /\ ticket_types = [tt \in TicketTypes |->
        [event_id |-> 1, price |-> IF tt = 1 THEN 5000 ELSE 2000,
         total_tickets |-> 1, tickets_sold |-> 0]]
  /\ events = [e \in Events |->
        [organizer_id |-> Organizer, total_tickets |-> 2, tickets_sold |-> 0,
         start_datetime |-> 0, end_datetime |-> 30]]
  /\ next_id = [ticket |-> 1, tx |-> 1, wl |-> 1]
  /\ now = 0
  /\ last = Resp("init", 0, 0, 0, "")
  /\ procs = << >>

\* ------------------------------------------------------------- purchase
\* POST /tickets: available = total_tickets - tickets_sold of the type row
Available(tt_row) == tt_row.total_tickets - tt_row.tickets_sold

\* (mutant) the end read without the fallback to the start
EventEnded_EndOnly(ev_row, t) == ev_row.end_datetime < t

\* eventEndTime = new Date(event.end_datetime || event.start_datetime);
\* eventEndTime < new Date()
EventEnded(ev_row, t) ==
  (IF ev_row.end_datetime # NULL THEN ev_row.end_datetime
                                 ELSE ev_row.start_datetime) < t

\* `quantity` tickets with consecutive serial ids, all on one transaction
NewTickets(D, tx_id, tt, ev, user, q, status) ==
  {[id |-> D.next_id.ticket + i, transaction_id |-> tx_id,
    ticket_type_id |-> tt, event_id |-> ev, user_id |-> user,
    status |-> status] : i \in 0 .. (q - 1)}

NewTx(D, user, price, status, method) ==
  [id |-> D.next_id.tx, user_id |-> user, total_price |-> price,
   status |-> status, payment_method |-> method]

\* The writes of a purchase: transaction, tickets, the type counter as a
\* relative update on the current row, then the event aggregates recomputed.
PurchaseWrite(D, user, ev, tt, q, price) ==
  LET tx == NewTx(D, user, price * q, "completed", "card")
      D1 == [D EXCEPT
               !.transactions = @ \cup {tx},
               !.tickets = @ \cup NewTickets(D, tx.id, tt, ev, user, q, "active"),
               !.next_id.tx = @ + 1,
               !.next_id.ticket = @ + q,
               !.ticket_types[tt].tickets_sold = @ + q]
  IN SyncEvent(D1, ev)

PurchaseHandler(D, user, ev, tt, q, t) ==
  IF ev \notin DOMAIN D.events
    THEN [db |-> D, resp |-> Resp("purchase", tt, user, 404, "NotFound")]
  ELSE IF EventEnded(D.events[ev], t)
    THEN [db |-> D, resp |-> Resp("purchase", tt, user, 400, "EventEnded")]
  ELSE IF tt \notin DOMAIN D.ticket_types
    THEN [db |-> D, resp |-> Resp("purchase", tt, user, 404, "NotFound")]
  ELSE IF Available(D.ticket_types[tt]) < q
    THEN [db |-> D, resp |-> Resp("purchase", tt, user, 400, "NotAvailable")]
  ELSE [db |-> PurchaseWrite(D, user, ev, tt, q, D.ticket_types[tt].price),
        resp |-> Resp("purchase", tt, user, 201, "")]

\* The bounded id spaces: a request is taken only when the serial ids it
\* consumes stay within the bounds.
Fits(D) ==
  /\ D.next_id.ticket <= MaxTicketId + 1
  /\ D.next_id.tx <= MaxTxId + 1
  /\ D.next_id.wl <= MaxWaitlistId + 1

\* One whole request: the handler's result is stored and its response kept.
Do(r) ==
  /\ Fits(r.db)
  /\ Store(r.db)
  /\ last' = r.resp
  /\ UNCHANGED <<now, procs>>

Purchase(user, ev, tt, q) == Do(PurchaseHandler(DB, user, ev, tt, q, now))

\* ----------------------------------------------------------------- time
Tick ==
  /\ now + TickMinutes <= MaxTime
  /\ now' = now + TickMinutes
  /\ last' = Resp("tick", 0, 0, 0, "")
  /\ UNCHANGED <<tickets, transactions, waitlist, ticket_types, events,
                 next_id, procs>>

\* ----------------------------------------------- assignTicketToWaitlist
\* SELECT * FROM waitlist WHERE event_id = $1 AND offered_at IS NULL
\* ORDER BY joined_at ASC LIMIT 1 FOR UPDATE SKIP LOCKED
\* `locked` holds the ids of the rows other open transactions have locked.
Unclaimed(wl, ev, locked) ==
  {w \in wl : w.event_id = ev /\ w.offered_at = NULL /\ w.id \notin locked}

\* (mutant) the SELECT without SKIP LOCKED and without waiting for the lock
NextUnclaimed_IgnoreLocks(wl, ev, locked) ==
  LET c == Unclaimed(wl, ev, {})
  IN IF c = {} THEN {} ELSE {EarliestJoined(c)}

NextUnclaimed(wl, ev, locked) ==
  LET c == Unclaimed(wl, ev, locked)
  IN IF c = {} THEN {} ELSE {EarliestJoined(c)}

\* ticketTypeResult.rows[0]?.price || 0
PriceOf(D, tt) ==
  IF tt \in DOMAIN D.ticket_types THEN D.ticket_types[tt].price ELSE 0

\* (mutant) the expiry stamped without the interval
StampOffer_NoWindow(w, t) ==
  [w EXCEPT !.offered_at = t, !.reservation_expires_at = t]

\* offered_at = NOW(), reservation_expires_at = NOW() + INTERVAL '30 minutes'
StampOffer(w, t) ==
  [w EXCEPT !.offered_at = t, !.reservation_expires_at = t + ReservationMinutes]

AssignResult(ev, tt, ok, wid, user, tx_id) ==
  [event_id |-> ev, ticket_type_id |-> tt, assigned |-> ok,
   waitlist_id |-> wid, user_id |-> user, transaction_id |-> tx_id]

\* The writes between the SELECT and the COMMIT, for the claimed row `wid`.
AssignWrite(D, wid, ev, tt, t) ==
  LET w == RowById(D.waitlist, wid)
      tx == NewTx(D, w.user_id, PriceOf(D, tt), "pending", "waitlist")
  IN [D EXCEPT
        !.waitlist = (@ \ {w}) \cup {StampOffer(w, t)},
        !.transactions = @ \cup {tx},
        !.tickets = @ \cup NewTickets(D, tx.id, tt, ev, w.user_id, 1, "reserved"),
        !.next_id.tx = @ + 1,
        !.next_id.ticket = @ + 1]

assignTicketToWaitlist(D, ev, tt, t, locked) ==
  LET rows == NextUnclaimed(D.waitlist, ev, locked)
  IN IF rows = {}
     THEN [db |-> D, res |-> AssignResult(ev, tt, FALSE, 0, 0, 0)]
     ELSE LET w == CHOOSE r \in rows : TRUE
          IN [db |-> AssignWrite(D, w.id, ev, tt, t),
              res |-> AssignResult(ev, tt, TRUE, w.id, w.user_id, D.next_id.tx)]

\* ------------------------------------------------------- refund routes
\* (mutant) the sold-out check dropped
IsSoldOut_Always(ev_row) == ev_row.tickets_sold >= 0

\* (mutant) sold out only once oversold
IsSoldOut_Strict(ev_row) == ev_row.tickets_sold > ev_row.total_tickets

\* (mutant) the sold-out check off by one
IsSoldOut_OneLeft(ev_row) == ev_row.tickets_sold + 1 >= ev_row.total_tickets

\* isSoldOut = ticket.tickets_sold >= ticket.total_tickets (the event's row)
IsSoldOut(ev_row) == ev_row.tickets_sold >= ev_row.total_tickets

\* FROM tickets t JOIN events e ON t.event_id = e.id WHERE t.id = $1
TicketCheck(D, id) ==
  {tk \in D.tickets : tk.id = id /\ tk.event_id \in DOMAIN D.events}

SetTicketStatus(D, id, status) ==
  [D EXCEPT !.tickets = {IF tk.id = id THEN [tk EXCEPT !.status = status] ELSE tk
                         : tk \in @}]

SetTxStatus(D, id, status) ==
  [D EXCEPT !.transactions =
     {IF tx.id = id THEN [tx EXCEPT !.status = status] ELSE tx : tx \in @}]

\* PUT /tickets/:id/refund
SelfRefundHandler(D, id, caller, t) ==
  LET rows == TicketCheck(D, id)
      resp(code, err) == Resp("refund", id, caller, code, err)
  IN IF rows = {} THEN [db |-> D, resp |-> resp(404, "NotFound")]
     ELSE LET ticket == CHOOSE tk \in rows : TRUE
          IN IF ticket.status # "active"
               THEN [db |-> D, resp |-> resp(400, "InvalidState")]
             ELSE IF ~IsSoldOut(D.events[ticket.event_id])
               THEN [db |-> D, resp |-> resp(400, "NotSoldOut")]
             ELSE LET D1 == SetTicketStatus(D, id, "pending_return")
                      a == assignTicketToWaitlist(D1, ticket.event_id,
                                                  ticket.ticket_type_id, t, {})
                  IN [db |-> a.db,
                      resp |-> [resp(200, "") EXCEPT
                                  !.assigned = a.res.assigned,
                                  !.asg = <<a.res>>]]

\* (mutant) the ticket type's counter left alone
DecrementSold_EventOnly(D, ev, tt) ==
  IF ev \in DOMAIN D.events
  THEN [D EXCEPT !.events[ev].tickets_sold = @ - 1] ELSE D

\* UPDATE events SET tickets_sold = tickets_sold - 1;
\* UPDATE ticket_types SET tickets_sold = tickets_sold - 1
DecrementSold(D, ev, tt) ==
  LET D1 == IF ev \in DOMAIN D.events
            THEN [D EXCEPT !.events[ev].tickets_sold = @ - 1] ELSE D
  IN IF tt \in DOMAIN D1.ticket_types
     THEN [D1 EXCEPT !.ticket_types[tt].tickets_sold = @ - 1] ELSE D1

\* PUT /tickets/:id/organizer-refund
OrganizerRefundHandler(D, id, caller, t) ==
  LET rows == TicketCheck(D, id)
      resp(code, err) == Resp("organizer_refund", id, caller, code, err)
  IN IF rows = {} THEN [db |-> D, resp |-> resp(404, "NotFound")]
     ELSE LET ticket == CHOOSE tk \in rows : TRUE
              ev == ticket.event_id
          IN IF D.events[ev].organizer_id # caller
               THEN [db |-> D, resp |-> resp(403, "Forbidden")]
             ELSE IF ticket.status # "active"
               THEN [db |-> D, resp |-> resp(400, "InvalidState")]
             ELSE LET isSoldOut == IsSoldOut(D.events[ev])
                      D1 == SetTicketStatus(D, id, "refunded")
                      D2 == DecrementSold(D1, ev, ticket.ticket_type_id)
                      D3 == SetTxStatus(D2, ticket.transaction_id, "refunded")
                  IN IF isSoldOut
                     THEN LET a == assignTicketToWaitlist(D3, ev,
                                       ticket.ticket_type_id, t, {})
                          IN [db |-> a.db,
                              resp |-> [resp(200, "") EXCEPT
                                          !.assigned = a.res.assigned,
                                          !.asg = <<a.res>>]]
                     ELSE [db |-> D3, resp |-> resp(200, "")]

SelfRefund(id, caller) == Do(SelfRefundHandler(DB, id, caller, now))

OrganizerRefund(id, caller) == Do(OrganizerRefundHandler(DB, id, caller, now))

\* ------------------------------------------------------ waitlist routes
EntriesOf(wl, user, ev) == {w \in wl : w.user_id = user /\ w.event_id = ev}

\* (mutant) ORDER BY issued_at DESC
OldestPendingReturn_Newest(S) ==
  LET c == {tk \in S : tk.status = "pending_return"}
  IN IF c = {} THEN {} ELSE {CHOOSE r \in c : \A o \in c : r.id >= o.id}

\* SELECT ... FROM tickets WHERE ... AND status = 'pending_return'
\* ORDER BY issued_at ASC LIMIT 1
OldestPendingReturn(S) ==
  LET c == {tk \in S : tk.status = "pending_return"}
  IN IF c = {} THEN {} ELSE {OldestIssued(c)}

\* (mutant) the rank counted among unclaimed entries only
Position_Unclaimed(wl, w) ==
  1 + Cardinality({o \in wl : /\ o.event_id = w.event_id
                              /\ o.joined_at < w.joined_at
                              /\ o.offered_at = NULL})

\* ROW_NUMBER() OVER (ORDER BY joined_at ASC) among the event's entries
Position(wl, w) ==
  1 + Cardinality({o \in wl : o.event_id = w.event_id /\ o.joined_at < w.joined_at})

NewEntry(D, user, ev) ==
  [id |-> D.next_id.wl, user_id |-> user, event_id |-> ev,
   joined_at |-> D.next_id.wl, offered_at |-> NULL,
   reservation_expires_at |-> NULL]

\* POST /waitlist after its checks: the pending_return lookup and the
\* inserts, on the rows as they are when these statements run
JoinWrite(D, user, ev) ==
  LET resp(code, err) == Resp("join", ev, user, code, err)
      pending == OldestPendingReturn({tk \in D.tickets : tk.event_id = ev})
  IN IF pending # {}
     THEN LET pt == CHOOSE tk \in pending : TRUE
              tx == NewTx(D, user, PriceOf(D, pt.ticket_type_id),
                          "pending", "waitlist")
          IN [db |-> [D EXCEPT
                        !.transactions = @ \cup {tx},
                        !.tickets = @ \cup NewTickets(D, tx.id,
                             pt.ticket_type_id, ev, user, 1, "reserved"),
                        !.next_id.tx = @ + 1,
                        !.next_id.ticket = @ + 1],
              resp |-> [resp(201, "") EXCEPT !.offered = TRUE,
                                             !.val = tx.id]]
     ELSE LET w == NewEntry(D, user, ev)
              D1 == [D EXCEPT !.waitlist = @ \cup {w},
                              !.next_id.wl = @ + 1]
          IN [db |-> D1,
              resp |-> [resp(201, "") EXCEPT
                          !.val = Position(D1.waitlist, w)]]

\* POST /waitlist
JoinHandler(D, user, ev, t) ==
  LET resp(code, err) == Resp("join", ev, user, code, err)
  IN IF ev \notin DOMAIN D.events
       THEN [db |-> D, resp |-> resp(404, "NotFound")]
     ELSE IF EventEnded(D.events[ev], t)
       THEN [db |-> D, resp |-> resp(400, "EventEnded")]
     ELSE IF D.events[ev].tickets_sold < D.events[ev].total_tickets
       THEN [db |-> D, resp |-> resp(400, "NotSoldOut")]
     ELSE IF EntriesOf(D.waitlist, user, ev) # {}
       THEN [db |-> D, resp |-> resp(409, "DuplicateEntry")]
     ELSE JoinWrite(D, user, ev)

\* DELETE /waitlist/:id
LeaveByIdHandler(D, id) ==
  IF HasId(D.waitlist, id)
  THEN [db |-> [D EXCEPT !.waitlist = {w \in @ : w.id # id}],
        resp |-> Resp("leave", id, 0, 200, "")]
  ELSE [db |-> D, resp |-> Resp("leave", id, 0, 404, "NotFound")]

\* (mutant) the DELETE without its user condition
LeaveByUserHandler_WholeEvent(D, ev, user) ==
  IF EntriesOf(D.waitlist, user, ev) # {}
  THEN [db |-> [D EXCEPT !.waitlist = {w \in @ : w.event_id # ev}],
        resp |-> Resp("leave_user", ev, user, 200, "")]
  ELSE [db |-> D, resp |-> Resp("leave_user", ev, user, 404, "NotFound")]

\* DELETE /waitlist/event/:event_id/user/:user_id
LeaveByUserHandler(D, ev, user) ==
  IF EntriesOf(D.waitlist, user, ev) # {}
  THEN [db |-> [D EXCEPT !.waitlist = @ \ EntriesOf(@, user, ev)],
        resp |-> Resp("leave_user", ev, user, 200, "")]
  ELSE [db |-> D, resp |-> Resp("leave_user", ev, user, 404, "NotFound")]

Join(user, ev) == Do(JoinHandler(DB, user, ev, now))

LeaveById(id) == Do(LeaveByIdHandler(DB, id))

LeaveByUser(ev, user) == Do(LeaveByUserHandler(DB, ev, user))

\* ---------------------------------------------------- accept / decline
\* (mutant) the transaction looked up by id alone
PendingOffer_AnyStatus(D, tx_id) == {tx \in D.transactions : tx.id = tx_id}

\* SELECT * FROM transactions WHERE id = $1 AND status = 'pending'
\* AND payment_method = 'waitlist'
PendingOffer(D, tx_id) ==
  {tx \in D.transactions :
     tx.id = tx_id /\ tx.status = "pending" /\ tx.payment_method = "waitlist"}

\* SELECT * FROM tickets WHERE transaction_id = $1 AND status = 'reserved'
ReservedTicket(D, tx_id) ==
  {tk \in D.tickets : tk.transaction_id = tx_id /\ tk.status = "reserved"}

DeleteTicket(D, id) == [D EXCEPT !.tickets = {tk \in @ : tk.id # id}]

\* (mutant) the entry kept after the accept or decline
DeleteEntries_Keep(D, user, ev) == D

\* DELETE FROM waitlist WHERE user_id = $1 AND event_id = $2
DeleteEntries(D, user, ev) ==
  [D EXCEPT !.waitlist = @ \ EntriesOf(@, user, ev)]

\* (mutant) the window counted twice
OfferExpired_Late(w, t) ==
  /\ w.offered_at # NULL
  /\ w.reservation_expires_at # NULL
  /\ w.reservation_expires_at + ReservationMinutes < t

\* waitlistEntry.offered_at && waitlistEntry.reservation_expires_at
\* && expiresAt < now
OfferExpired(w, t) ==
  /\ w.offered_at # NULL
  /\ w.reservation_expires_at # NULL
  /\ w.reservation_expires_at < t

\* (mutant) the fee taken as 2 per mille
PlatformFee_PerMille(price) == (price * 2) \div 1000

\* platformFee = originalPrice * 0.02 (amounts are kept in cents)
PlatformFee(price) == (price * 2) \div 100

RefundAmount(price) == price - PlatformFee(price)

\* The refund of the displaced pending_return ticket `rt`.
RefundReturned(D, rt) ==
  LET orig == RowById(D.transactions, rt.transaction_id)
      D1 == SetTicketStatus(D, rt.id, "refunded")
      tx == NewTx(D1, rt.user_id, 0 - RefundAmount(orig.total_price),
                  "refunded", "waitlist_return")
  IN [D1 EXCEPT !.transactions = @ \cup {tx}, !.next_id.tx = @ + 1]

\* POST /waitlist/accept-ticket/:transaction_id
AcceptHandler(D, tx_id, t) ==
  LET resp(code, err) == Resp("accept", tx_id, 0, code, err)
      txs == PendingOffer(D, tx_id)
      tks == ReservedTicket(D, tx_id)
  IN IF txs = {} THEN [db |-> D, resp |-> resp(404, "NotFound")]
     ELSE IF tks = {} THEN [db |-> D, resp |-> resp(404, "NotFound")]
     ELSE
       LET ticket == CHOOSE tk \in tks : TRUE
           transaction == CHOOSE tx \in txs : TRUE
           entries == EntriesOf(D.waitlist, transaction.user_id, ticket.event_id)
           expired == \E w \in entries :
                         /\ \A o \in entries : w.id <= o.id
                         /\ OfferExpired(w, t)
       IN IF expired
          THEN LET D1 == SetTxStatus(D, tx_id, "expired")
                   D2 == DeleteTicket(D1, ticket.id)
                   a == assignTicketToWaitlist(D2, ticket.event_id,
                                               ticket.ticket_type_id, t, {})
               IN [db |-> a.db,
                   resp |-> [resp(410, "ReservationExpired") EXCEPT
                               !.asg = <<a.res>>]]
          ELSE LET pending == OldestPendingReturn(
                      {tk \in D.tickets :
                         /\ tk.event_id = ticket.event_id
                         /\ tk.ticket_type_id = ticket.ticket_type_id})
                   D1 == SetTxStatus(D, tx_id, "completed")
                   D2 == SetTicketStatus(D1, ticket.id, "active")
               IN IF pending # {}
                  THEN LET rt == CHOOSE tk \in pending : TRUE
                           price == RowById(D.transactions, rt.transaction_id).total_price
                           D3 == RefundReturned(D2, rt)
                           D4 == DeleteEntries(D3, transaction.user_id, ticket.event_id)
                       IN [db |-> D4,
                           resp |-> [resp(200, "") EXCEPT
                                       !.val = RefundAmount(price),
                                       !.fee = PlatformFee(price)]]
                  ELSE [db |-> DeleteEntries(D2, transaction.user_id, ticket.event_id),
                        resp |-> resp(200, "")]

\* POST /waitlist/decline-ticket/:transaction_id
DeclineHandler(D, tx_id, t) ==
  LET resp(code, err) == Resp("decline", tx_id, 0, code, err)
      txs == PendingOffer(D, tx_id)
      tks == ReservedTicket(D, tx_id)
  IN IF txs = {} THEN [db |-> D, resp |-> resp(404, "NotFound")]
     ELSE IF tks = {} THEN [db |-> D, resp |-> resp(404, "NotFound")]
     ELSE
       LET ticket == CHOOSE tk \in tks : TRUE
           transaction == CHOOSE tx \in txs : TRUE
           D1 == SetTxStatus(D, tx_id, "cancelled")
           D2 == DeleteTicket(D1, ticket.id)
           D3 == DeleteEntries(D2, transaction.user_id, ticket.event_id)
           a == assignTicketToWaitlist(D3, ticket.event_id,
                                       ticket.ticket_type_id, t, {})
       IN [db |-> a.db,
           resp |-> [resp(200, "") EXCEPT !.assigned = a.res.assigned,
                                          !.asg = <<a.res>>]]

Accept(tx_id) == Do(AcceptHandler(DB, tx_id, now))

Decline(tx_id) == Do(DeclineHandler(DB, tx_id, now))

\* ------------------------------------------- cleanupExpiredReservations
\* (mutant) the expiry compared with <= NOW()
ExpiredRows_Inclusive(D, t) ==
  {[ticket |-> tk, waitlist_id |-> w.id] :
     <<tk, w>> \in {p \in D.tickets \X D.waitlist :
        /\ p[1].status = "reserved"
        /\ \E tx \in D.transactions :
              tx.id = p[1].transaction_id /\ tx.status = "pending"
        /\ p[2].user_id = p[1].user_id
        /\ p[2].event_id = p[1].event_id
        /\ p[2].reservation_expires_at # NULL
        /\ p[2].reservation_expires_at <= t}}

\* SELECT t.*, w.id AS waitlist_id FROM tickets t
\* JOIN transactions tx ON t.transaction_id = tx.id
\* LEFT JOIN waitlist w ON w.user_id = t.user_id AND w.event_id = t.event_id
\* WHERE t.status = 'reserved' AND tx.status = 'pending'
\* AND w.reservation_expires_at IS NOT NULL AND w.reservation_expires_at < NOW()
ExpiredRows(D, t) ==
  {[ticket |-> tk, waitlist_id |-> w.id] :
     <<tk, w>> \in {p \in D.tickets \X D.waitlist :
        /\ p[1].status = "reserved"
        /\ \E tx \in D.transactions :
              tx.id = p[1].transaction_id /\ tx.status = "pending"
        /\ p[2].user_id = p[1].user_id
        /\ p[2].event_id = p[1].event_id
        /\ p[2].reservation_expires_at # NULL
        /\ p[2].reservation_expires_at < t}}

\* (mutant) the row re-offered without being expired
SweepRow_CascadeOnly(D, row, t) ==
  assignTicketToWaitlist(D, row.ticket.event_id, row.ticket.ticket_type_id, t, {})

\* The body of the loop for one row: expire, delete, delete, re-offer.
SweepRow(D, row, t) ==
  LET D1 == SetTxStatus(D, row.ticket.transaction_id, "expired")
      D2 == DeleteTicket(D1, row.ticket.id)
      D3 == [D2 EXCEPT !.waitlist = {w \in @ : w.id # row.waitlist_id}]
  IN assignTicketToWaitlist(D3, row.ticket.event_id,
                            row.ticket.ticket_type_id, t, {})

\* The loop over the rows in the order the SELECT returned them.
RECURSIVE SweepRows(_, _, _, _)
SweepRows(D, rows, t, asg) ==
  IF rows = << >> THEN [db |-> D, asg |-> asg]
  ELSE LET a == SweepRow(D, Head(rows), t)
       IN SweepRows(a.db, Tail(rows), t, Append(asg, a.res))

\* The SELECT has no ORDER BY: any order of the rows.
Orders(S) ==
  {o \in [1 .. Cardinality(S) -> S] :
     \A i, j \in 1 .. Cardinality(S) : i # j => o[i] # o[j]}

SweepHandler(D, rows, t) ==
  LET r == SweepRows(D, rows, t, << >>)
  IN [db |-> r.db,
      resp |-> [Resp("sweep", 0, 0, 200, "") EXCEPT !.val = Len(rows),
                                                     !.asg = r.asg]]

Sweep == \E rows \in Orders(ExpiredRows(DB, now)) : Do(SweepHandler(DB, rows, now))

\* ------------------------------------------------- ticket-type recount
\* PUT /ticket-types/:id/recount:
\* UPDATE ticket_types SET tickets_sold = (SELECT COUNT(*) FROM tickets
\* WHERE ticket_type_id = $1) WHERE id = $1
RecountHandler(D, tt) ==
  [db |-> IF tt \in DOMAIN D.ticket_types
          THEN [D EXCEPT !.ticket_types[tt].tickets_sold =
                  Cardinality({tk \in D.tickets : tk.ticket_type_id = tt})]
          ELSE D,
   resp |-> Resp("recount", tt, 0, 200, "")]

Recount(tt) == Do(RecountHandler(DB, tt))

\* ------------------------------------------------------ specifications
TicketIds == 1 .. MaxTicketId
TxIds == 1 .. MaxTxId
WaitlistIds == 1 .. MaxWaitlistId
Quantities == 1 .. MaxQuantity

\* The request handlers of the waitlist / ticket core, one whole request
\* per step, and the clock.
Next ==
  \/ \E u \in Buyers, e \in Events, tt \in TicketTypes, q \in Quantities :
        Purchase(u, e, tt, q)
  \/ \E id \in TicketIds, c \in Callers : SelfRefund(id, c)
  \/ \E id \in TicketIds, c \in Callers : OrganizerRefund(id, c)
  \/ \E u \in Joiners, e \in Events : Join(u, e)
  \/ \E id \in WaitlistIds : LeaveById(id)
  \/ \E e \in Events, u \in Joiners : LeaveByUser(e, u)
  \/ \E x \in TxIds : Accept(x)
  \/ \E x \in TxIds : Decline(x)
  \/ Sweep
  \/ Tick

Spec == Init /\ [][Next]_vars

\* The routes that write the sold counters, with the ticket-type recount
\* route.
NextLedger ==
  \/ \E u \in Buyers, e \in Events, tt \in TicketTypes, q \in Quantities :
        Purchase(u, e, tt, q)
  \/ \E id \in TicketIds, c \in Callers : OrganizerRefund(id, c)
  \/ \E u \in Joiners, e \in Events : Join(u, e)
  \/ \E x \in TxIds : Accept(x)
  \/ \E x \in TxIds : Decline(x)
  \/ \E tt \in TicketTypes : Recount(tt)

SpecLedger == Init /\ [][NextLedger]_vars

\* ============================================== concurrent executions
\* Requests that run inside BEGIN ... COMMIT on their own connection are
\* split where they await the store: what they read is read from the
\* committed tables, what they write becomes visible at COMMIT, and the rows
\* they have locked stay locked until then.

\* ------------------- N concurrent assignTicketToWaitlist calls (SpecAssign)
Calls == 1 .. NumCalls

IdleCall == [pc |-> "idle", event_id |-> 0, ticket_type_id |-> 0,
             waitlist_id |-> 0, res |-> AssignResult(0, 0, FALSE, 0, 0, 0)]

\* The waitlist rows locked by the calls between their SELECT ... FOR UPDATE
\* and their COMMIT.
LockedRows == {procs[c].waitlist_id : c \in {d \in DOMAIN procs : procs[d].pc = "claimed"}}

AllIdle == \A c \in DOMAIN procs : procs[c].pc = "idle"

InitAssign ==
  /\ Init!1 /\ Init!2 /\ Init!3 /\ Init!4 /\ Init!5 /\ Init!6 /\ Init!7 /\ Init!8
  /\ procs = [c \in Calls |-> IdleCall]

\* BEGIN; SELECT ... FOR UPDATE SKIP LOCKED; no row: ROLLBACK and
\* return {assigned: false}, else the row stays locked by this call.
AssignSelect(c, ev, tt) ==
  /\ procs[c].pc = "idle"
  /\ LET rows == NextUnclaimed(waitlist, ev, LockedRows)
     IN IF rows = {}
        THEN procs' = [procs EXCEPT ![c] =
                 [IdleCall EXCEPT !.pc = "done", !.event_id = ev,
                                  !.ticket_type_id = tt,
                                  !.res = AssignResult(ev, tt, FALSE, 0, 0, 0)]]
        ELSE procs' = [procs EXCEPT ![c] =
                 [IdleCall EXCEPT !.pc = "claimed", !.event_id = ev,
                                  !.ticket_type_id = tt,
                                  !.waitlist_id = (CHOOSE r \in rows : TRUE).id]]
  /\ UNCHANGED <<tickets, transactions, waitlist, ticket_types, events,
                 next_id, now, last>>

\* price lookup, UPDATE waitlist, INSERT transaction, INSERT ticket, COMMIT
AssignCommit(c) ==
  /\ procs[c].pc = "claimed"
  /\ LET me == procs[c]
         w == RowById(waitlist, me.waitlist_id)
         D == AssignWrite(DB, me.waitlist_id, me.event_id, me.ticket_type_id, now)
     IN /\ Fits(D)
        /\ Store(D)
        /\ procs' = [procs EXCEPT ![c] =
              [me EXCEPT !.pc = "done",
                         !.res = AssignResult(me.event_id, me.ticket_type_id, TRUE,
                                              w.id, w.user_id, next_id.tx)]]
  /\ UNCHANGED <<now, last>>

\* The queue is built by whole requests before the calls are fired.
NextAssign ==
  \/ /\ AllIdle
     /\ \E u \in Buyers, e \in Events, tt \in TicketTypes, q \in Quantities :
          Purchase(u, e, tt, q)
  \/ /\ AllIdle
     /\ \E u \in Joiners, e \in Events : Join(u, e)
  \/ \E c \in Calls, e \in Events, tt \in TicketTypes : AssignSelect(c, e, tt)
  \/ \E c \in Calls : AssignCommit(c)

SpecAssign == InitAssign /\ [][NextAssign]_vars

\* ------------------------------ concurrent purchases (SpecPurchase)
BuyerProcs == 1 .. NumBuyers

IdleBuyer == [pc |-> "idle", user_id |-> 0, event_id |-> 0,
              ticket_type_id |-> 0, quantity |-> 0, price |-> 0]

InitPurchase ==
  /\ Init!1 /\ Init!2 /\ Init!3 /\ Init!4 /\ Init!5 /\ Init!6 /\ Init!7 /\ Init!8
  /\ procs = [b \in BuyerProcs |-> IdleBuyer]

\* BEGIN; the existence checks and the availability check on the rows as
\* committed; a failing check rolls back and answers.
PurchaseRead(b, user, ev, tt, q) ==
  /\ procs[b].pc = "idle"
  /\ LET r == PurchaseHandler(DB, user, ev, tt, q, now)
     IN IF r.resp.code # 201
        THEN /\ last' = r.resp
             /\ UNCHANGED procs
        ELSE /\ procs' = [procs EXCEPT ![b] =
                  [pc |-> "checked", user_id |-> user, event_id |-> ev,
                   ticket_type_id |-> tt, quantity |-> q,
                   price |-> ticket_types[tt].price]]
             /\ UNCHANGED last
  /\ UNCHANGED <<tickets, transactions, waitlist, ticket_types, events,
                 next_id, now>>

\* INSERT transaction, INSERT tickets, UPDATE ticket_types SET tickets_sold =
\* tickets_sold + $1 (on the row as it is now), UPDATE events, COMMIT
PurchaseCommit(b) ==
  /\ procs[b].pc = "checked"
  /\ LET me == procs[b]
         D == PurchaseWrite(DB, me.user_id, me.event_id, me.ticket_type_id,
                            me.quantity, me.price)
     IN /\ Fits(D)
        /\ Store(D)
        /\ last' = Resp("purchase", me.ticket_type_id, me.user_id, 201, "")
  /\ procs' = [procs EXCEPT ![b] = IdleBuyer]
  /\ UNCHANGED now

NextPurchase ==
  \/ \E b \in BuyerProcs, u \in Buyers, e \in Events, tt \in TicketTypes,
        q \in Quantities : PurchaseRead(b, u, e, tt, q)
  \/ \E b \in BuyerProcs : PurchaseCommit(b)
  \/ \E id \in TicketIds, c \in Callers : OrganizerRefund(id, c)
  \/ Tick

SpecPurchase == InitPurchase /\ [][NextPurchase]_vars

\* C7: in every reachable state, including states reached by concurrently
\* executing purchase requests for the same ticket type, each ticket type
\* satisfies sold <= total.
C7_SoldWithinTotal ==
  \A tt \in TicketTypes :
    ticket_types[tt].tickets_sold <= ticket_types[tt].total_tickets

\* ================================================================ claims
\* ------------------------------------------------------------ vocabulary
TicketsOf(tt, statuses) ==
  {tk \in tickets : tk.ticket_type_id = tt /\ tk.status \in statuses}

TxPending(tx_id) ==
  \E tx \in transactions : tx.id = tx_id /\ tx.status = "pending"

\* The outstanding offers of a ticket type: reserved tickets whose
\* transaction is pending.
OutstandingOffers(tt) ==
  {tk \in TicketsOf(tt, {"reserved"}) : TxPending(tk.transaction_id)}

\* The freed units of a ticket type: tickets in pending_return plus the
\* unsold capacity.
FreedUnits(tt) ==
  Cardinality(TicketsOf(tt, {"pending_return"}))
    + (ticket_types[tt].total_tickets - ticket_types[tt].tickets_sold)

\* C1: in every reachable state, for each event and ticket type, the number
\* of outstanding offers (reserved tickets with a pending transaction) is at
\* most the number of freed units of that type (pending_return tickets plus
\* total - sold), so one freed unit is never promised to two people at once.
C1_NoDoublePromise ==
  \A tt \in TicketTypes : Cardinality(OutstandingOffers(tt)) <= FreedUnits(tt)

\* C5: for every event, after every mutating operation (recount included),
\* the event's sold counter is the sum of its ticket types' sold counters and
\* the event's total is the sum of its ticket types' totals.
C5_EventAggregates ==
  \A e \in Events :
    /\ events[e].tickets_sold = SumSold(DB, e)
    /\ events[e].total_tickets = SumTotal(DB, e)

\* C6: each ticket type's sold counter equals the number of its tickets that
\* count toward sold (status active or pending_return).
C6_SoldCountsTickets ==
  \A tt \in TicketTypes :
    ticket_types[tt].tickets_sold
      = Cardinality(TicketsOf(tt, {"active", "pending_return"}))

\* ------------------------------------------- C2: concurrent promotions
Holds(c) ==
  \/ procs[c].pc = "claimed"
  \/ procs[c].pc = "done" /\ procs[c].res.assigned

AllDone == \A c \in DOMAIN procs : procs[c].pc = "done"

Claimed == {w \in waitlist : w.offered_at # NULL}

PendingOffersOf(user) ==
  {tx \in transactions :
     tx.user_id = user /\ tx.status = "pending" /\ tx.payment_method = "waitlist"}

ReservedOf(user, ev) ==
  {tk \in tickets :
     tk.user_id = user /\ tk.event_id = ev /\ tk.status = "reserved"}

Smaller(a, b) == IF a <= b THEN a ELSE b

\* C2: for N concurrently executing assignTicketToWaitlist calls on one
\* event, no waitlist entry is claimed by more than one call; once all calls
\* have returned, with k unclaimed entries at the start, exactly the
\* min(k, N) earliest-joined entries are claimed, each with exactly one
\* pending waitlist transaction and one reserved ticket referencing it, and
\* the other N - min(k, N) calls returned assigned:false.
C2_EachEntryClaimedOnce ==
  /\ \A c, d \in DOMAIN procs :
        (c # d /\ Holds(c) /\ Holds(d))
          => procs[c].waitlist_id # procs[d].waitlist_id
  /\ AllDone =>
       LET n == Smaller(Cardinality(waitlist), NumCalls)
       IN /\ Cardinality(Claimed) = n
          /\ \A w \in Claimed, o \in waitlist \ Claimed : w.joined_at < o.joined_at
          /\ \A w \in Claimed :
               /\ Cardinality(PendingOffersOf(w.user_id)) = 1
               /\ Cardinality(ReservedOf(w.user_id, w.event_id)) = 1
               /\ \A tk \in ReservedOf(w.user_id, w.event_id) :
                    tk.transaction_id \in {tx.id : tx \in PendingOffersOf(w.user_id)}
          /\ Cardinality({c \in DOMAIN procs : ~procs[c].res.assigned}) = NumCalls - n

\* Two calls hold two different locked rows at once while a third call found
\* nothing left to claim (k = 2 entries, more calls than entries).
C2_Witness ==
  /\ Cardinality(waitlist) = 2
  /\ \E c, d, e \in DOMAIN procs :
        /\ c # d
        /\ procs[c].pc = "claimed" /\ procs[d].pc = "claimed"
        /\ procs[c].waitlist_id # procs[d].waitlist_id
        /\ procs[e].pc = "done" /\ ~procs[e].res.assigned

\* --------------------------- C3, C4: one call, through the routes of Spec
\* The step was a request that called assignTicketToWaitlist exactly once.
OneCall == Len(last'.asg) = 1

TheCall == last'.asg[1]

\* The unclaimed entries of the call's event at the time of the call: what
\* the request deletes, it deletes before the call.
AtCall ==
  {w \in waitlist :
     /\ w.event_id = TheCall.event_id
     /\ w.offered_at = NULL
     /\ \E o \in waitlist' : o.id = w.id}

NewRows(old, new) == {r \in new : ~\E o \in old : o.id = r.id}

\* C3: with no concurrent claimant, assignTicketToWaitlist(event, type)
\* claims the entry of that event with the earliest join time among the
\* entries whose offer timestamp is null, whatever ticket type was passed;
\* when there is no such entry it returns assigned:false and changes no
\* waitlist entry, ticket, transaction or counter (a self-service return
\* then changes nothing but the returned ticket's status).
C3_ClaimsEarliestUnclaimed ==
  [][OneCall =>
       IF TheCall.assigned
       THEN \E w \in AtCall :
              /\ w.id = TheCall.waitlist_id
              /\ w.user_id = TheCall.user_id
              /\ \A o \in AtCall : w.joined_at <= o.joined_at
              /\ \E n \in waitlist' : n.id = w.id /\ n.offered_at # NULL
       ELSE /\ AtCall = {}
            /\ next_id' = next_id
            /\ waitlist' \subseteq waitlist
            /\ NewRows(tickets, tickets') = {}
            /\ NewRows(transactions, transactions') = {}
            /\ last'.op = "refund" =>
                 /\ waitlist' = waitlist
                 /\ transactions' = transactions
                 /\ ticket_types' = ticket_types
                 /\ events' = events
                 /\ tickets' = SetTicketStatus(DB, last'.arg, "pending_return").tickets
  ]_vars

\* A call for ticket type 2 claimed an entry while a later-joined unclaimed
\* entry stayed in the queue.
C3_Witness ==
  /\ Len(last.asg) = 1
  /\ last.asg[1].assigned
  /\ last.asg[1].ticket_type_id = 2
  /\ \E w, o \in waitlist :
        /\ w.id = last.asg[1].waitlist_id
        /\ o.offered_at = NULL
        /\ o.event_id = w.event_id
        /\ o.joined_at > w.joined_at

\* A call found no unclaimed entry.
C3_WitnessNone ==
  /\ last.op = "refund"
  /\ Len(last.asg) = 1
  /\ ~last.asg[1].assigned

SomeEntryClaimed ==
  \E w \in waitlist, n \in waitlist' :
     n.id = w.id /\ w.offered_at = NULL /\ n.offered_at # NULL

\* C8: a self-service return succeeds only when the ticket is active and the
\* event is sold out (sold >= total); on success the ticket becomes
\* pending_return, its owner and the sold counters are unchanged,
\* assignTicketToWaitlist is invoked once for the ticket's event and type,
\* and the response flag equals whether that call assigned an entry.
C8_SelfReturnSucceeds ==
  [][(last'.op = "refund" /\ last'.code = 200) =>
       \E tk \in tickets, n \in tickets' :
          /\ tk.id = last'.arg /\ n.id = tk.id
          /\ tk.status = "active"
          /\ events[tk.event_id].tickets_sold >= events[tk.event_id].total_tickets
          /\ n = [tk EXCEPT !.status = "pending_return"]
          /\ ticket_types' = ticket_types
          /\ events' = events
          /\ Len(last'.asg) = 1
          /\ last'.asg[1].event_id = tk.event_id
          /\ last'.asg[1].ticket_type_id = tk.ticket_type_id
          /\ last'.assigned = last'.asg[1].assigned
          /\ last'.assigned = SomeEntryClaimed
  ]_vars

\* A return that was offered on to a waiting user.
C8_Witness ==
  /\ last.op = "refund" /\ last.code = 200 /\ last.assigned
  /\ \E tk \in tickets : tk.id = last.arg /\ tk.status = "pending_return"

\* A return with nobody waiting.
C8_WitnessNobody ==
  /\ last.op = "refund" /\ last.code = 200 /\ ~last.assigned
  /\ \E tk \in tickets : tk.id = last.arg /\ tk.status = "pending_return"

\* C9: a self-service return of an active ticket on an event that is not
\* sold out is rejected, and no ticket, transaction, waitlist entry or
\* counter changes.
C9_ReturnRejectedNotSoldOut ==
  \A tk \in tickets, c \in Callers :
    (/\ tk.status = "active"
     /\ events[tk.event_id].tickets_sold < events[tk.event_id].total_tickets)
      => LET r == SelfRefundHandler(DB, tk.id, c, now)
         IN /\ r.resp.code = 400
            /\ r.resp.err = "NotSoldOut"
            /\ r.db = DB

\* The state after such a return was rejected: the ticket is still active.
C9_Witness ==
  /\ last.op = "refund" /\ last.err = "NotSoldOut"
  /\ \E tk \in tickets :
        /\ tk.status = "active"
        /\ events[tk.event_id].tickets_sold < events[tk.event_id].total_tickets

\* C10: both refund entry points fail with NotFound for a missing ticket,
\* with InvalidState for a ticket that is not active, and with Forbidden when
\* the caller is not the ticket's owner (self-service return) or not the
\* event's organizer (organizer refund); a failing request changes nothing.
\* (Forbidden is required only where no other error applies: the ticket is
\* active and, for the self-service return, the event is sold out.)
C10_RefundErrors ==
  \A id \in TicketIds, c \in Callers :
    LET s == SelfRefundHandler(DB, id, c, now)
        o == OrganizerRefundHandler(DB, id, c, now)
    IN /\ (s.resp.code # 200) => s.db = DB
       /\ (o.resp.code # 200) => o.db = DB
       /\ ~HasId(tickets, id) =>
            s.resp.err = "NotFound" /\ o.resp.err = "NotFound"
       /\ HasId(tickets, id) =>
            LET tk == RowById(tickets, id)
                owner == tk.user_id = c
                organizer == events[tk.event_id].organizer_id = c
            IN /\ (owner /\ tk.status # "active") => s.resp.err = "InvalidState"
               /\ (organizer /\ tk.status # "active") => o.resp.err = "InvalidState"
               /\ (~organizer /\ tk.status = "active") => o.resp.err = "Forbidden"
               /\ (/\ ~owner
                   /\ tk.status = "active"
                   /\ events[tk.event_id].tickets_sold
                        >= events[tk.event_id].total_tickets)
                    => s.resp.err = "Forbidden"

\* ------------------------------------------ C11 - C13: organizer refund
\* The step was a successful organizer refund.
OrganizerRefunded == last'.op = "organizer_refund" /\ last'.code = 200

\* C11: a successful organizer refund of an active ticket sets the ticket to
\* refunded, decrements the ticket type's sold counter and the event's sold
\* counter by exactly one each, and sets the ticket's original transaction to
\* refunded.
C11_OrganizerRefundEffects ==
  [][OrganizerRefunded =>
       \E tk \in tickets :
          /\ tk.id = last'.arg
          /\ tk.status = "active"
          /\ [tk EXCEPT !.status = "refunded"] \in tickets'
          /\ ticket_types' = [ticket_types EXCEPT
                                ![tk.ticket_type_id].tickets_sold = @ - 1]
          /\ events' = [events EXCEPT ![tk.event_id].tickets_sold = @ - 1]
          /\ \E tx \in transactions, n \in transactions' :
                /\ tx.id = tk.transaction_id
                /\ n = [tx EXCEPT !.status = "refunded"]
  ]_vars

\* An organizer refund went through: the ticket and its transaction are
\* refunded and the event has a free unit again.
C11_Witness ==
  /\ last.op = "organizer_refund" /\ last.code = 200
  /\ \E tk \in tickets, tx \in transactions :
        /\ tk.id = last.arg /\ tk.status = "refunded"
        /\ tx.id = tk.transaction_id /\ tx.status = "refunded"
        /\ events[tk.event_id].tickets_sold < events[tk.event_id].total_tickets

\* C12: an organizer refund invokes assignTicketToWaitlist if and only if the
\* event was sold out (sold >= total) immediately before the refund; when it
\* was not sold out no offer, reserved ticket or pending transaction is
\* created and no waitlist entry is claimed.
C12_CascadeOnlyWhenSoldOut ==
  [][OrganizerRefunded =>
       \E tk \in tickets :
          /\ tk.id = last'.arg
          /\ LET wasSoldOut == events[tk.event_id].tickets_sold
                                 >= events[tk.event_id].total_tickets
             IN /\ Len(last'.asg) = (IF wasSoldOut THEN 1 ELSE 0)
                /\ wasSoldOut =>
                     /\ last'.asg[1].event_id = tk.event_id
                     /\ last'.asg[1].ticket_type_id = tk.ticket_type_id
                     /\ last'.assigned = last'.asg[1].assigned
                /\ ~wasSoldOut =>
                     /\ ~last'.assigned
                     /\ waitlist' = waitlist
                     /\ next_id' = next_id
                     /\ NewRows(tickets, tickets') = {}
                     /\ NewRows(transactions, transactions') = {}
  ]_vars

\* An organizer refund on an event that was not sold out, with an unclaimed
\* entry waiting: the entry stays unclaimed.
C12_Witness ==
  /\ last.op = "organizer_refund" /\ last.code = 200
  /\ last.asg = NoAssign
  /\ \E w \in waitlist : w.offered_at = NULL

\* An organizer refund on a sold-out event that made an offer.
C12_WitnessSoldOut ==
  /\ last.op = "organizer_refund" /\ last.code = 200
  /\ Len(last.asg) = 1 /\ last.assigned

\* ---------------------- the organizer refund, one pool.query at a time
\* PUT /tickets/:id/organizer-refund issues its four UPDATEs as separate
\* autocommitted pool.query calls, then calls assignTicketToWaitlist, which
\* runs in a transaction of its own.  Any of the awaited queries may reject;
\* the catch block then answers 500 and nothing is undone.
RefundProcs == {1}

IdleRefund == [pc |-> "idle", step |-> 0, ticket |-> 0, caller |-> 0,
               isSoldOut |-> FALSE, before |-> 0]

InitRefund ==
  /\ Init!1 /\ Init!2 /\ Init!3 /\ Init!4 /\ Init!5 /\ Init!6 /\ Init!7 /\ Init!8
  /\ procs = [p \in RefundProcs |-> IdleRefund]

NoRefundRunning == \A p \in RefundProcs : procs[p].pc = "idle"

\* The k-th UPDATE of the handler, for the ticket row read by ticketCheck.
RefundStatement(D, ticket, k) ==
  CASE k = 1 -> SetTicketStatus(D, ticket.id, "refunded")
    [] k = 2 -> [D EXCEPT !.events[ticket.event_id].tickets_sold = @ - 1]
    [] k = 3 -> [D EXCEPT !.ticket_types[ticket.ticket_type_id].tickets_sold = @ - 1]
    [] k = 4 -> SetTxStatus(D, ticket.transaction_id, "refunded")

\* ticketCheck and the three checks; a rejected request answers at once.
\* `before` keeps the database as the request found it.
RefundBegin(p, id, caller) ==
  /\ NoRefundRunning
  /\ LET r == OrganizerRefundHandler(DB, id, caller, now)
     IN IF r.resp.code # 200
        THEN /\ last' = r.resp
             /\ UNCHANGED procs
        ELSE LET ticket == RowById(tickets, id)
             IN /\ procs' = [procs EXCEPT ![p] =
                      [pc |-> "run", step |-> 0, ticket |-> ticket,
                       caller |-> caller,
                       isSoldOut |-> IsSoldOut(events[ticket.event_id]),
                       before |-> DB]]
                /\ UNCHANGED last
  /\ UNCHANGED <<tickets, transactions, waitlist, ticket_types, events,
                 next_id, now>>

\* One awaited UPDATE commits.
RefundStep(p) ==
  /\ procs[p].pc = "run"
  /\ procs[p].step < 4
  /\ Store(RefundStatement(DB, procs[p].ticket, procs[p].step + 1))
  /\ procs' = [procs EXCEPT ![p].step = @ + 1]
  /\ UNCHANGED <<now, last>>

\* The cascade and the response.
RefundCascade(p) ==
  /\ procs[p].pc = "run"
  /\ procs[p].step = 4
  /\ LET me == procs[p]
         resp == Resp("organizer_refund", me.ticket.id, me.caller, 200, "")
     IN IF me.isSoldOut
        THEN LET a == assignTicketToWaitlist(DB, me.ticket.event_id,
                                             me.ticket.ticket_type_id, now, {})
             IN /\ Fits(a.db)
                /\ Store(a.db)
                /\ last' = [resp EXCEPT !.assigned = a.res.assigned,
                                        !.asg = <<a.res>>]
        ELSE /\ Store(DB)
             /\ last' = resp
  /\ procs' = [procs EXCEPT ![p].pc = "done"]
  /\ UNCHANGED now

\* The awaited query (an UPDATE, or the cascade, which rolls itself back and
\* rethrows) rejects: catch (err) { next(err) }.
RefundFail(p) ==
  /\ procs[p].pc = "run"
  /\ procs' = [procs EXCEPT ![p].pc = "failed"]
  /\ last' = Resp("organizer_refund", procs[p].ticket.id, procs[p].caller,
                  500, "ServerError")
  /\ UNCHANGED <<tickets, transactions, waitlist, ticket_types, events,
                 next_id, now>>

\* The response has been sent.
RefundEnd(p) ==
  /\ procs[p].pc \in {"done", "failed"}
  /\ procs' = [procs EXCEPT ![p] = IdleRefund]
  /\ UNCHANGED <<tickets, transactions, waitlist, ticket_types, events,
                 next_id, now, last>>

NextRefund ==
  \/ \E p \in RefundProcs, id \in TicketIds, c \in Callers : RefundBegin(p, id, c)
  \/ \E p \in RefundProcs : RefundStep(p)
  \/ \E p \in RefundProcs : RefundCascade(p)
  \/ \E p \in RefundProcs : RefundFail(p)
  \/ \E p \in RefundProcs : RefundEnd(p)
  \/ /\ NoRefundRunning
     /\ \E u \in Buyers, e \in Events, tt \in TicketTypes, q \in Quantities :
           Purchase(u, e, tt, q)
  \/ /\ NoRefundRunning
     /\ \E u \in Joiners, e \in Events : Join(u, e)

SpecRefund == InitRefund /\ [][NextRefund]_vars

\* The four rows the primary state change writes, as they stand in D.
Primary(D, ticket) ==
  [ticket |-> RowById(D.tickets, ticket.id).status,
   transaction |-> RowById(D.transactions, ticket.transaction_id).status,
   type_sold |-> D.ticket_types[ticket.ticket_type_id].tickets_sold,
   event_sold |-> D.events[ticket.event_id].tickets_sold]

\* All four changes applied to D.
AllFour(D, ticket) ==
  RefundStatement(RefundStatement(RefundStatement(RefundStatement(
    D, ticket, 1), ticket, 2), ticket, 3), ticket, 4)

\* C13: the primary state change of an organizer refund (ticket refunded,
\* ticket-type and event counters decremented, original transaction
\* refunded) is atomic: once the request has ended, by its response or by a
\* failure at any step including a failure of the waitlist cascade, either
\* all four changes are applied or none of them.
C13_RefundAtomic ==
  \A p \in DOMAIN procs :
     procs[p].pc \in {"done", "failed"} =>
        LET me == procs[p]
        IN Primary(DB, me.ticket) \in
             {Primary(me.before, me.ticket),
              Primary(AllFour(me.before, me.ticket), me.ticket)}

\* ------------------------------------------ C14 - C20: accept / decline
\* Transaction x is an open offer: pending, payment method waitlist, with a
\* reserved ticket referencing it.
IsOffer(D, x) ==
  /\ \E tx \in D.transactions :
        tx.id = x /\ tx.status = "pending" /\ tx.payment_method = "waitlist"
  /\ \E tk \in D.tickets : tk.transaction_id = x /\ tk.status = "reserved"

\* Accept and decline of x both answer NotFound on D and leave D as it is.
BothNotFound(D, x) ==
  LET a == AcceptHandler(D, x, now)
      d == DeclineHandler(D, x, now)
  IN /\ a.resp.err = "NotFound" /\ a.db = D
     /\ d.resp.err = "NotFound" /\ d.db = D

SetTxMethod(D, id, method) ==
  [D EXCEPT !.transactions =
     {IF tx.id = id THEN [tx EXCEPT !.payment_method = method] ELSE tx : tx \in @}]

\* C14: accept and decline of a transaction id fail with NotFound and change
\* nothing unless the transaction is pending with payment method waitlist
\* and has a reserved ticket referencing it (each of the three conditions is
\* needed: an open offer with any one of them undone is rejected as well); in
\* particular a second accept or decline issued after a first one has
\* completed on the same transaction fails and changes nothing.
C14_AcceptDeclineNeedOffer ==
  /\ \A x \in TxIds :
       /\ ~IsOffer(DB, x) => BothNotFound(DB, x)
       /\ IsOffer(DB, x) =>
            /\ \A st \in {"completed", "cancelled", "expired", "refunded"} :
                  BothNotFound(SetTxStatus(DB, x, st), x)
            /\ BothNotFound(SetTxMethod(DB, x, "card"), x)
            /\ \A tk \in ReservedTicket(DB, x) :
                  /\ BothNotFound(DeleteTicket(DB, tk.id), x)
                  /\ BothNotFound(SetTicketStatus(DB, tk.id, "active"), x)
  /\ (last.op \in {"accept", "decline"} /\ last.code = 200) =>
        /\ ~IsOffer(DB, last.arg)
        /\ BothNotFound(DB, last.arg)

\* An offer has just been accepted while another offer is still open: the
\* accepted transaction can be neither accepted nor declined again.
C14_Witness ==
  /\ last.op = "accept" /\ last.code = 200
  /\ AcceptHandler(DB, last.arg, now).resp.err = "NotFound"
  /\ DeclineHandler(DB, last.arg, now).resp.err = "NotFound"
  /\ \E x \in TxIds : IsOffer(DB, x)

\* The step was a successful accept.
Accepted == last'.op = "accept" /\ last'.code = 200

SoldOutEvent(q) ==
  LET D0 == [tickets |-> {}, transactions |-> {}, waitlist |-> {},
             ticket_types |-> [tt \in TicketTypes |->
                [event_id |-> 1, price |-> IF tt = 1 THEN 5000 ELSE 2000,
                 total_tickets |-> IF tt = 1 THEN q ELSE 1, tickets_sold |-> 0]],
             events |-> [e \in Events |->
                [organizer_id |-> Organizer, total_tickets |-> q + 1,
                 tickets_sold |-> 0, start_datetime |-> 0,
                 end_datetime |-> 30]],
             next_id |-> [ticket |-> 1, tx |-> 1, wl |-> 1]]
  IN PurchaseWrite(PurchaseWrite(D0, 2, 1, 1, q, 5000), 2, 1, 2, 1, 2000)

InitReturns ==
  /\ \E q \in 1 .. 2 :
        LET D == SoldOutEvent(q)
        IN /\ tickets = D.tickets
           /\ transactions = D.transactions
           /\ waitlist = D.waitlist
           /\ ticket_types = D.ticket_types
           /\ events = D.events
           /\ next_id = D.next_id
  /\ now = 0
  /\ last = Resp("init", 0, 0, 0, "")
  /\ procs = << >>

\* The owner returns tickets, the organizer refunds them, waiting users
\* join, accept, decline and leave.
NextReturns ==
  \/ \E id \in TicketIds, c \in Callers : SelfRefund(id, c)
  \/ \E id \in TicketIds, c \in Callers : OrganizerRefund(id, c)
  \/ \E u \in Joiners, e \in Events : Join(u, e)
  \/ \E e \in Events, u \in Joiners : LeaveByUser(e, u)
  \/ \E x \in TxIds : Accept(x)
  \/ \E x \in TxIds : Decline(x)
  \/ Tick

SpecReturns == InitReturns /\ [][NextReturns]_vars

\* The pending_return tickets of the accepted ticket's event and type.
PendingReturnsLike(tk) ==
  {p \in tickets : /\ p.event_id = tk.event_id
                   /\ p.ticket_type_id = tk.ticket_type_id
                   /\ p.status = "pending_return"}

Refunded(S) == {tk \in S : tk.status = "refunded"}

\* C16: on a successful accept, if a pending_return ticket of the same event
\* and ticket type exists, the oldest one is set to refunded and exactly one
\* compensating transaction (status refunded, method waitlist_return) is
\* recorded for its owner with amount equal to minus 98% of that ticket's
\* original transaction price, the reported fee being 2% of it (price 50.00
\* gives -49.00 and fee 1.00); if none exists no ticket is refunded, no
\* compensating transaction is created and the reported refund and fee are
\* zero.  Amounts are in cents.
C16_RefundOfReturnedTicket ==
  [][Accepted =>
       \E tk \in tickets :
          /\ tk.transaction_id = last'.arg /\ tk.status = "reserved"
          /\ LET pend == PendingReturnsLike(tk)
                 accepted == [RowById(transactions, last'.arg)
                                EXCEPT !.status = "completed"]
             IN IF pend # {}
                THEN \E rt \in pend :
                       LET price == RowById(transactions, rt.transaction_id).total_price
                           comp == [id |-> next_id.tx, user_id |-> rt.user_id,
                                    total_price |-> 0 - ((98 * price) \div 100),
                                    status |-> "refunded",
                                    payment_method |-> "waitlist_return"]
                       IN /\ \A o \in pend : rt.id <= o.id
                          /\ Refunded(tickets') = Refunded(tickets)
                                 \cup {[rt EXCEPT !.status = "refunded"]}
                          /\ NewRows(transactions, transactions') = {comp}
                          /\ accepted \in transactions'
                          /\ 100 * last'.fee = 2 * price
                          /\ 100 * last'.val = 98 * price
                          /\ price = 5000 =>
                                (comp.total_price = 0 - 4900 /\ last'.fee = 100)
                ELSE /\ Refunded(tickets') = Refunded(tickets)
                     /\ NewRows(transactions, transactions') = {}
                     /\ transactions' \ {accepted} \subseteq transactions
                     /\ last'.val = 0
                     /\ last'.fee = 0
  ]_vars

\* An accept refunded the older of two returned tickets of one type and left
\* the newer one pending.
C16_Witness ==
  /\ last.op = "accept" /\ last.code = 200 /\ last.val > 0
  /\ \E rt, o \in tickets :
        /\ rt.ticket_type_id = o.ticket_type_id
        /\ rt.id < o.id
        /\ rt.status = "refunded" /\ o.status = "pending_return"
        /\ \E tx \in transactions :
              /\ tx.payment_method = "waitlist_return"
              /\ tx.user_id = rt.user_id
              /\ tx.total_price < 0

\* A ticket bought for 50.00 was returned and its offer accepted: -49.00 to
\* the prior owner, fee 1.00.
C16_WitnessFifty ==
  /\ last.op = "accept" /\ last.code = 200
  /\ last.val = 4900 /\ last.fee = 100
  /\ \E tx \in transactions :
        tx.payment_method = "waitlist_return" /\ tx.total_price = 0 - 4900

\* An accept with no returned ticket of the type: nothing refunded.
C16_WitnessNone ==
  /\ last.op = "accept" /\ last.code = 200
  /\ last.val = 0 /\ last.fee = 0
  /\ \E tk \in tickets : tk.transaction_id = last.arg /\ tk.status = "active"

\* The clock readings at which an accept of an offer expiring at E is tried:
\* now, and one minute either side of E where that is not in the past.
AcceptTimes(E) == {t \in {now, E - 1, E + 1} : t >= now}

\* C17: for an offer whose waitlist entry carries an expiry timestamp E, an
\* accept performed at a time before E succeeds, and an accept performed at a
\* time after E fails with ReservationExpired, sets the transaction to
\* expired, deletes the reserved ticket and invokes assignTicketToWaitlist
\* for the same event and type so that the next unclaimed entry receives an
\* offer.
C17_AcceptAroundExpiry ==
  \A x \in TxIds :
    IsOffer(DB, x) =>
      LET tx == RowById(transactions, x)
          tk == CHOOSE k \in ReservedTicket(DB, x) : TRUE
      IN \A w \in EntriesOf(waitlist, tx.user_id, tk.event_id) :
           w.reservation_expires_at # NULL =>
             \A t \in AcceptTimes(w.reservation_expires_at) :
               LET a == AcceptHandler(DB, x, t)
                   waiting == Unclaimed(waitlist, tk.event_id, {})
               IN /\ t < w.reservation_expires_at =>
                       /\ a.resp.code = 200
                       /\ \E n \in a.db.tickets : n.id = tk.id /\ n.status = "active"
                  /\ t > w.reservation_expires_at =>
                       /\ a.resp.code = 410
                       /\ a.resp.err = "ReservationExpired"
                       /\ [tx EXCEPT !.status = "expired"] \in a.db.transactions
                       /\ ~HasId(a.db.tickets, tk.id)
                       /\ Len(a.resp.asg) = 1
                       /\ a.resp.asg[1].event_id = tk.event_id
                       /\ a.resp.asg[1].ticket_type_id = tk.ticket_type_id
                       /\ a.resp.asg[1].assigned = (waiting # {})
                       /\ waiting # {} =>
                            LET first == EarliestJoined(waiting)
                            IN /\ a.resp.asg[1].waitlist_id = first.id
                               /\ StampOffer(first, t) \in a.db.waitlist
                               /\ \E n \in a.db.tickets :
                                     /\ n.status = "reserved"
                                     /\ n.user_id = first.user_id
                                     /\ n.ticket_type_id = tk.ticket_type_id
                                     /\ n.transaction_id = a.resp.asg[1].transaction_id

\* An accept came after the window had lapsed and the offer moved on to the
\* next waiting user.
C17_Witness ==
  /\ last.op = "accept" /\ last.code = 410
  /\ \E tx \in transactions : tx.id = last.arg /\ tx.status = "expired"
  /\ Len(last.asg) = 1 /\ last.asg[1].assigned
  /\ \E w \in waitlist :
        w.id = last.asg[1].waitlist_id /\ w.offered_at = now

\* An offer stands whose window is still open, with another user waiting.
C17_WitnessOpen ==
  \E x \in TxIds :
     /\ IsOffer(DB, x)
     /\ \E w \in waitlist, o \in waitlist :
           /\ w.user_id = RowById(transactions, x).user_id
           /\ w.reservation_expires_at # NULL /\ now < w.reservation_expires_at
           /\ o.offered_at = NULL

\* ------------------------------- offers and the time they were made (C18)
\* tickets.issued_at of the reserved tickets: the clock reading at which the
\* offer's rows were inserted, kept per ticket id.
InitOffers ==
  /\ Init!1 /\ Init!2 /\ Init!3 /\ Init!4 /\ Init!5 /\ Init!6 /\ Init!7 /\ Init!8
  /\ procs = << >>

\* One whole request, with issued_at recorded for the reserved tickets it
\* inserted.
Issue(r) ==
  /\ Fits(r.db)
  /\ Store(r.db)
  /\ last' = r.resp
  /\ LET new == {tk.id : tk \in {n \in NewRows(tickets, r.db.tickets) :
                                   n.status = "reserved"}}
     IN procs' = [id \in (DOMAIN procs) \cup new |->
                    IF id \in DOMAIN procs THEN procs[id] ELSE now]
  /\ UNCHANGED now

NextOffers ==
  \/ \E u \in Buyers, e \in Events, tt \in TicketTypes, q \in Quantities :
        Issue(PurchaseHandler(DB, u, e, tt, q, now))
  \/ \E id \in TicketIds, c \in Callers : Issue(SelfRefundHandler(DB, id, c, now))
  \/ \E u \in Joiners, e \in Events : Issue(JoinHandler(DB, u, e, now))
  \/ \E id \in WaitlistIds : Issue(LeaveByIdHandler(DB, id))
  \/ \E x \in TxIds : Issue(AcceptHandler(DB, x, now))
  \/ \E rows \in Orders(ExpiredRows(DB, now)) : Issue(SweepHandler(DB, rows, now))
  \/ Tick

SpecOffers == InitOffers /\ [][NextOffers]_vars

\* C18: no offer is ever accepted after its 30-minute window has lapsed: for
\* every reserved ticket, however its offer was created (offer engine cascade
\* or immediate offer at join) and whether or not the offeree's waitlist
\* entry still exists, an accept issued more than 30 minutes after the offer
\* was created never turns the ticket active.
C18_NoAcceptAfterWindow ==
  [][\A tk \in tickets, n \in tickets' :
        (/\ n.id = tk.id
         /\ tk.status = "reserved" /\ n.status = "active"
         /\ tk.id \in DOMAIN procs)
          => now <= procs[tk.id] + 30
  ]_vars

\* C19: an accept attempted on an offer whose window has lapsed always yields
\* ReservationExpired and never NotFound, regardless of whether the
\* expiration sweeper has already processed that offer before the accept
\* arrives.  Stated on the state a sweeper pass leaves: every offer it (or an
\* earlier pass) has expired still answers ReservationExpired to an accept.
C19_ExpiredNeverNotFound ==
  last.op = "sweep" =>
    \A tx \in transactions :
       (tx.payment_method = "waitlist" /\ tx.status = "expired") =>
          /\ AcceptHandler(DB, tx.id, now).resp.err # "NotFound"
          /\ AcceptHandler(DB, tx.id, now).resp.err = "ReservationExpired"

\* The step was a successful decline.
Declined == last'.op = "decline" /\ last'.code = 200

\* C20: a successful decline sets the offer's transaction to cancelled,
\* deletes its reserved ticket, deletes the declining user's waitlist entry,
\* and then invokes assignTicketToWaitlist for the same event and type; the
\* new offer goes to the earliest-joined unclaimed entry other than the
\* decliner, the decliner is not re-enqueued, and the result flag equals
\* whether an entry was assigned.
C20_DeclineEffects ==
  [][Declined =>
       \E tx \in transactions, tk \in tickets :
          /\ tx.id = last'.arg
          /\ tx.status = "pending" /\ tx.payment_method = "waitlist"
          /\ tk.transaction_id = tx.id /\ tk.status = "reserved"
          /\ [tx EXCEPT !.status = "cancelled"] \in transactions'
          /\ ~HasId(tickets', tk.id)
          /\ EntriesOf(waitlist', tx.user_id, tk.event_id) = {}
          /\ {w.id : w \in waitlist'}
               = {w.id : w \in waitlist \ EntriesOf(waitlist, tx.user_id, tk.event_id)}
          /\ ticket_types' = ticket_types
          /\ events' = events
          /\ Len(last'.asg) = 1
          /\ last'.asg[1].event_id = tk.event_id
          /\ last'.asg[1].ticket_type_id = tk.ticket_type_id
          /\ last'.assigned = last'.asg[1].assigned
          /\ LET waiting == {w \in Unclaimed(waitlist, tk.event_id, {}) :
                               w.user_id # tx.user_id}
             IN /\ last'.assigned = (waiting # {})
                /\ waiting # {} =>
                     LET first == EarliestJoined(waiting)
                     IN /\ last'.asg[1].waitlist_id = first.id
                        /\ last'.asg[1].user_id = first.user_id
                        /\ StampOffer(first, now) \in waitlist'
                        /\ \E n \in NewRows(tickets, tickets') :
                              /\ n.status = "reserved"
                              /\ n.user_id = first.user_id
                              /\ n.ticket_type_id = tk.ticket_type_id
                /\ waiting = {} =>
                     /\ NewRows(tickets, tickets') = {}
                     /\ NewRows(transactions, transactions') = {}
  ]_vars

\* A decline passed the offer on to the next waiting user; the decliner has
\* no entry left.
C20_Witness ==
  /\ last.op = "decline" /\ last.code = 200 /\ last.assigned
  /\ \E tx \in transactions, w \in waitlist :
        /\ tx.id = last.arg /\ tx.status = "cancelled"
        /\ w.id = last.asg[1].waitlist_id
        /\ w.user_id # tx.user_id
        /\ w.offered_at = now
        /\ EntriesOf(waitlist, tx.user_id, w.event_id) = {}

\* A decline with nobody else waiting.
C20_WitnessNobody ==
  /\ last.op = "decline" /\ last.code = 200 /\ ~last.assigned
  /\ waitlist = {}

\* ------------------------------------------------ C21: claimed entries
\* C21: in every state reached after an operation completes, every waitlist
\* entry with a non-null offer timestamp has a reserved ticket with a pending
\* waitlist transaction for the same user and event; an entry whose offer
\* ended by accept, decline, sweep expiry or expiry detected at accept time
\* no longer exists, so no entry stays claimed without a live offer.
C21_ClaimedEntryHasOffer ==
  \A w \in waitlist :
     w.offered_at # NULL =>
        \E tk \in tickets, tx \in transactions :
           /\ tk.status = "reserved"
           /\ tk.user_id = w.user_id /\ tk.event_id = w.event_id
           /\ tx.id = tk.transaction_id
           /\ tx.status = "pending" /\ tx.payment_method = "waitlist"

\* ---------------------------------------------- C22 - C26: the sweeper
\* C22: running the expiration sweep twice in immediate succession, with no
\* offer expiring between the two runs, cleans zero rows in the second run
\* and the second run changes no ticket, transaction or waitlist entry.
C22_SweepIdempotent ==
  \A rows \in Orders(ExpiredRows(DB, now)) :
     LET first == SweepHandler(DB, rows, now)
         again == ExpiredRows(first.db, now)
     IN /\ again = {}
        /\ \A rows2 \in Orders(again) :
              LET second == SweepHandler(first.db, rows2, now)
              IN second.resp.val = 0 /\ second.db = first.db

\* A pass has just expired an offer and passed it on; the new offer is not
\* yet due.
C22_Witness ==
  /\ last.op = "sweep" /\ last.val > 0
  /\ \E i \in 1 .. Len(last.asg) : last.asg[i].assigned
  /\ ExpiredRows(DB, now) = {}
  /\ \E w \in waitlist : w.reservation_expires_at # NULL

\* ----------------------- the sweeper pass, one expired row at a time
\* A pass selects the expired rows once, then runs BEGIN .. COMMIT per row on
\* its own connection; assignTicketToWaitlist runs on another connection and
\* commits by itself.  A query of the row's transaction may reject: the inner
\* catch rolls the row back, logs, and the loop goes on.
Sweepers == 1 .. NumSweepers

IdleSweeper == [pc |-> "idle", rows |-> << >>, found |-> {}, failed |-> {},
                asg |-> << >>]

InitSweep ==
  /\ Init!1 /\ Init!2 /\ Init!3 /\ Init!4 /\ Init!5 /\ Init!6 /\ Init!7 /\ Init!8
  /\ procs = [p \in Sweepers |-> IdleSweeper]

NoSweepRunning == \A p \in Sweepers : procs[p].pc = "idle"

\* (mutant) a failing row ends the pass
AfterFailure_Abort(rows) == << >>

\* catch (error) { ROLLBACK; console.error } - the for loop continues
AfterFailure(rows) == Tail(rows)

\* The pass's response once `rows` is what is left to process.
SweepNext(me, rows) ==
  [me EXCEPT !.rows = rows, !.pc = IF rows = << >> THEN "done" ELSE "run"]

\* The SELECT of the pass; with no row it returns cleaned: 0 at once.
SweepSelect(p) ==
  /\ procs[p].pc = "idle"
  /\ \E rows \in Orders(ExpiredRows(DB, now)) :
        IF rows = << >>
        THEN /\ last' = Resp("sweep", 0, 0, 200, "")
             /\ UNCHANGED procs
        ELSE /\ procs' = [procs EXCEPT ![p] =
                  [pc |-> "run", rows |-> rows,
                   found |-> ExpiredRows(DB, now), failed |-> {},
                   asg |-> << >>]]
             /\ UNCHANGED last
  /\ UNCHANGED <<tickets, transactions, waitlist, ticket_types, events,
                 next_id, now>>

\* One row's transaction commits.
SweepProcess(p) ==
  /\ procs[p].pc = "run"
  /\ LET me == procs[p]
         a == SweepRow(DB, Head(me.rows), now)
     IN /\ Fits(a.db)
        /\ Store(a.db)
        /\ procs' = [procs EXCEPT ![p] =
             SweepNext([me EXCEPT !.asg = Append(@, a.res)], Tail(me.rows))]
  /\ UNCHANGED <<now, last>>

\* A query of the row's transaction rejects before the cascade has
\* committed (the UPDATE, a DELETE, or the cascade itself, which rolls itself
\* back and rethrows): nothing of the row is kept.
SweepFail(p) ==
  /\ procs[p].pc = "run"
  /\ LET me == procs[p]
     IN procs' = [procs EXCEPT ![p] =
          SweepNext([me EXCEPT !.failed = @ \cup {Head(me.rows)}],
                    AfterFailure(me.rows))]
  /\ UNCHANGED <<tickets, transactions, waitlist, ticket_types, events,
                 next_id, now, last>>

\* The row's COMMIT rejects: the row is rolled back, but the cascade, which
\* committed on its own connection, stays.
SweepFailAtCommit(p) ==
  /\ procs[p].pc = "run"
  /\ LET me == procs[p]
         row == Head(me.rows)
         a == assignTicketToWaitlist(DB, row.ticket.event_id,
                                     row.ticket.ticket_type_id, now, {})
     IN /\ Fits(a.db)
        /\ Store(a.db)
        /\ procs' = [procs EXCEPT ![p] =
             SweepNext([me EXCEPT !.failed = @ \cup {row},
                                  !.asg = Append(@, a.res)],
                       AfterFailure(me.rows))]
  /\ UNCHANGED <<now, last>>

\* return { cleaned: expiredResult.rows.length }
SweepEnd(p) ==
  /\ procs[p].pc = "done"
  /\ last' = [Resp("sweep", 0, 0, 200, "") EXCEPT
                !.val = Cardinality(procs[p].found), !.asg = procs[p].asg]
  /\ procs' = [procs EXCEPT ![p] = IdleSweeper]
  /\ UNCHANGED <<tickets, transactions, waitlist, ticket_types, events,
                 next_id, now>>

\* One sweeper whose rows may fail; requests arrive between passes.
NextSweepFail ==
  \/ SweepSelect(1)
  \/ SweepProcess(1)
  \/ SweepFail(1)
  \/ SweepFailAtCommit(1)
  \/ SweepEnd(1)
  \/ /\ NoSweepRunning
     /\ \/ \E u \in Buyers, e \in Events, tt \in TicketTypes, q \in Quantities :
              Purchase(u, e, tt, q)
        \/ \E id \in TicketIds, c \in Callers : SelfRefund(id, c)
        \/ \E u \in Joiners, e \in Events : Join(u, e)
        \/ Tick

SpecSweepFail == InitSweep /\ [][NextSweepFail]_vars

\* The row's transaction, ticket and entry are as the pass found them.
RowAsFound(row) ==
  /\ row.ticket \in tickets
  /\ RowById(transactions, row.ticket.transaction_id).status = "pending"
  /\ HasId(waitlist, row.waitlist_id)

\* The row has been processed.
RowProcessed(row) ==
  /\ ~HasId(tickets, row.ticket.id)
  /\ RowById(transactions, row.ticket.transaction_id).status = "expired"
  /\ ~HasId(waitlist, row.waitlist_id)

NextSweepRace ==
  \/ \E p \in Sweepers : SweepSelect(p)
  \/ \E p \in Sweepers : SweepProcess(p)
  \/ \E p \in Sweepers : SweepEnd(p)
  \/ \E x \in TxIds : Accept(x)
  \/ \E x \in TxIds : Decline(x)
  \/ /\ NoSweepRunning
     /\ \/ \E u \in Buyers, e \in Events, tt \in TicketTypes, q \in Quantities :
              Purchase(u, e, tt, q)
        \/ \E id \in TicketIds, c \in Callers : SelfRefund(id, c)
        \/ \E u \in Joiners, e \in Events : Join(u, e)
        \/ Tick

SpecSweepRace == InitSweep /\ [][NextSweepRace]_vars

\* The reservation of `row` is still open: nobody has processed it.
RowLive(row) ==
  /\ row.ticket \in tickets
  /\ \E tx \in transactions :
        tx.id = row.ticket.transaction_id /\ tx.status = "pending"

\* C24: when a sweep pass and an accept or decline request for the same
\* reserved ticket interleave in any order, the reservation is processed by
\* exactly one of them: it is never both expired and completed/cancelled, at
\* most one cascade offer is produced for its slot, and a displaced
\* pending_return ticket is refunded only if the accepting user ends up
\* holding an active ticket.  As a property of the steps: a pass that comes
\* to a row whose reservation a request has already closed changes no
\* transaction and offers nothing, and a status changes only from pending
\* (with both, the refund, which only a successful accept makes, goes with
\* the ticket that accept activated).
C24_SweepOrRequest ==
  [][/\ \A p \in DOMAIN procs :
          (/\ procs[p].pc = "run"
           /\ procs'[p] # procs[p]
           /\ ~RowLive(Head(procs[p].rows)))
            => /\ tickets' = tickets
               /\ transactions' = transactions
               /\ next_id' = next_id
     /\ \A tx \in transactions, n \in transactions' :
          (n.id = tx.id /\ n.status # tx.status) => tx.status = "pending"
  ]_vars

\* The rows of its pass a sweeper has processed so far.
Processed(p) ==
  procs[p].found \ {procs[p].rows[i] : i \in 1 .. Len(procs[p].rows)}

\* C25: when two sweep passes overlap in time, each expired reservation is
\* processed by at most one of them, so one expired reservation triggers at
\* most one invocation of assignTicketToWaitlist and at most one new offer.
C25_OnePassPerReservation ==
  \A p, q \in DOMAIN procs :
     p # q => Processed(p) \cap Processed(q) = {}

\* --------------------------------- abandoned offers and the sweeper (C26)
\* Every cascade uses one unclaimed entry, one ticket id and one transaction
\* id: a request is taken only if the ids left cover the entries waiting, so
\* that a sweeper pass is never held up by the bounds.
Room(D) ==
  LET waiting == Cardinality({w \in D.waitlist : w.offered_at = NULL})
  IN /\ D.next_id.ticket + waiting <= MaxTicketId + 1
     /\ D.next_id.tx + waiting <= MaxTxId + 1

Request(r) == Room(r.db) /\ Issue(r)

SweepPass ==
  \E rows \in Orders(ExpiredRows(DB, now)) : Issue(SweepHandler(DB, rows, now))

\* Offers are made and never answered: nobody accepts or declines.
NextReclaim ==
  \/ \E u \in Buyers, e \in Events, tt \in TicketTypes, q \in Quantities :
        Request(PurchaseHandler(DB, u, e, tt, q, now))
  \/ \E id \in TicketIds, c \in Callers : Request(SelfRefundHandler(DB, id, c, now))
  \/ \E u \in Joiners, e \in Events : Request(JoinHandler(DB, u, e, now))
  \/ \E id \in WaitlistIds : Request(LeaveByIdHandler(DB, id))
  \/ SweepPass
  \/ Tick

\* setInterval runs the sweeper again and again, and time advances.
SpecReclaim ==
  /\ InitOffers
  /\ [][NextReclaim]_vars
  /\ WF_vars(SweepPass)
  /\ WF_vars(Tick)

\* Ticket `id` is a reserved ticket whose offer was made at minute 0.
OfferedAtStart(id) ==
  /\ id \in DOMAIN procs
  /\ procs[id] = 0
  /\ \E tk \in tickets : tk.id = id /\ tk.status = "reserved"

OfferOpen(id) ==
  \E tk \in tickets, tx \in transactions :
     /\ tk.id = id /\ tk.status = "reserved"
     /\ tx.id = tk.transaction_id /\ tx.status = "pending"

\* C26: assuming the sweeper runs infinitely often and time advances, every
\* offer that is neither accepted nor declined is eventually reclaimed: its
\* transaction leaves pending and its reserved ticket is removed.  This holds
\* for every reserved ticket, including one created by the immediate offer
\* at join and one whose waitlist entry was removed by leave.  (Checked for
\* the offers made at minute 0, whose window lapses within the clock's range.)
C26_OffersReclaimed ==
  \A id \in TicketIds : OfferedAtStart(id) ~> ~OfferOpen(id)

\* ------------------------------------------------- C27 - C30: the queue
\* The current time is past the event's end, or past its start when no end
\* is recorded.
PastEvent(ev_row, t) ==
  \/ ev_row.end_datetime # NULL /\ t > ev_row.end_datetime
  \/ ev_row.end_datetime = NULL /\ t > ev_row.start_datetime

\* The errors join(user, ev) is to fail with on database D at time t.
JoinErrors(D, user, ev, t) ==
  (IF PastEvent(D.events[ev], t) THEN {"EventEnded"} ELSE {})
  \cup (IF D.events[ev].tickets_sold < D.events[ev].total_tickets
        THEN {"NotSoldOut"} ELSE {})
  \cup (IF \E w \in D.waitlist : w.user_id = user /\ w.event_id = ev
        THEN {"DuplicateEntry"} ELSE {})

\* join on D fails exactly when one of the three conditions holds, with the
\* error of a condition that holds, and a failing join leaves D as it is.
JoinChecked(D, user, ev, t) ==
  LET r == JoinHandler(D, user, ev, t)
      errs == JoinErrors(D, user, ev, t)
  IN /\ errs = {} => r.resp.code = 201
     /\ errs # {} => (r.resp.code \in {400, 409} /\ r.resp.err \in errs)
     /\ r.resp.code # 201 => r.db = D

\* The event's end cleared and its start set to s.
WithoutEnd(D, ev, s) ==
  [D EXCEPT !.events[ev].end_datetime = NULL, !.events[ev].start_datetime = s]

\* C27: join(user, event) fails with DuplicateEntry when an entry for the
\* pair exists, with NotSoldOut when the event's sold is below its total,
\* and with EventEnded when the current time is past the event's end (or
\* start when no end is recorded); in each failing case no waitlist entry,
\* ticket or transaction is created or changed.
C27_JoinErrors ==
  \A u \in Joiners, e \in Events :
     /\ JoinChecked(DB, u, e, now)
     /\ \A s \in {now - 1, now, now + 1} :
           JoinChecked(WithoutEnd(DB, e, s), u, e, now)

\* A join by a user already on the event's waitlist has been rejected.
C27_Witness ==
  /\ last.op = "join" /\ last.err = "DuplicateEntry"
  /\ \E u \in Joiners, e \in Events :
        JoinErrors(DB, u, e, now) = {"DuplicateEntry"}

\* Joins rejected because the event has capacity, and because it is over.
C27_WitnessNotSoldOut ==
  /\ last.op = "join" /\ last.err = "NotSoldOut"
  /\ \E u \in Joiners, e \in Events : JoinErrors(DB, u, e, now) = {"NotSoldOut"}

C27_WitnessEnded ==
  /\ last.op = "join" /\ last.err = "EventEnded"
  /\ \E u \in Joiners, e \in Events : JoinErrors(DB, u, e, now) = {"EventEnded"}


\* ------------------------------------- concurrent joins (SpecJoin)
JoinProcs == 1 .. NumJoins

IdleJoin == [pc |-> "idle", user_id |-> 0, event_id |-> 0]

InitJoin ==
  /\ Init!1 /\ Init!2 /\ Init!3 /\ Init!4 /\ Init!5 /\ Init!6 /\ Init!7 /\ Init!8
  /\ procs = [p \in JoinProcs |-> IdleJoin]

\* The request's checks, each a plain pool.query on the rows as committed;
\* a failing check answers at once.
JoinRead(p, user, ev) ==
  /\ procs[p].pc = "idle"
  /\ LET r == JoinHandler(DB, user, ev, now)
     IN IF r.resp.code # 201
        THEN /\ last' = r.resp
             /\ UNCHANGED procs
        ELSE /\ procs' = [procs EXCEPT ![p] =
                  [pc |-> "checked", user_id |-> user, event_id |-> ev]]
             /\ UNCHANGED last
  /\ UNCHANGED <<tickets, transactions, waitlist, ticket_types, events,
                 next_id, now>>

\* The pending_return lookup and the INSERTs, run after the checks with no
\* lock held since them.
JoinCommit(p) ==
  /\ procs[p].pc = "checked"
  /\ LET r == JoinWrite(DB, procs[p].user_id, procs[p].event_id)
     IN /\ Fits(r.db)
        /\ Store(r.db)
        /\ last' = r.resp
  /\ procs' = [procs EXCEPT ![p] = IdleJoin]
  /\ UNCHANGED now

NextJoin ==
  \/ \E p \in JoinProcs, u \in Joiners, e \in Events : JoinRead(p, u, e)
  \/ \E p \in JoinProcs : JoinCommit(p)
  \/ \E u \in Buyers, e \in Events, tt \in TicketTypes, q \in Quantities :
        Purchase(u, e, tt, q)
  \/ \E id \in TicketIds, c \in Callers : SelfRefund(id, c)
  \/ \E e \in Events, u \in Joiners : LeaveByUser(e, u)
  \/ Tick

SpecJoin == InitJoin /\ [][NextJoin]_vars

\* C28: in every reachable state there is at most one waitlist entry per
\* (user, event) pair, including states reached by two join requests for
\* the same pair executing concurrently.
C28_OneEntryPerPair ==
  \A u \in Users, e \in Events :
     Cardinality(EntriesOf(waitlist, u, e)) <= 1


\* The reserved tickets of the user for the event whose transaction is a
\* pending waitlist transaction: the user's outstanding offers.
OffersTo(user, ev) ==
  {tk \in tickets :
     /\ tk.status = "reserved" /\ tk.user_id = user /\ tk.event_id = ev
     /\ \E tx \in transactions :
           /\ tx.id = tk.transaction_id
           /\ tx.status = "pending" /\ tx.payment_method = "waitlist"}

\* C29: in every reachable state each user has at most one reserved ticket
\* with a pending waitlist transaction per event: a claimed entry corresponds
\* to exactly one reserved ticket, and repeated joins by the same user never
\* accumulate more than one outstanding offer for that event.
C29_OneOfferPerUser ==
  /\ \A u \in Users, e \in Events :
        Cardinality(OffersTo(u, e)) <= 1
  /\ \A w \in waitlist :
        w.offered_at # NULL =>
           Cardinality(OffersTo(w.user_id, w.event_id)) = 1


\* D and E agree on tickets, transactions, counters and id sequences.
SameButWaitlist(D, E) ==
  /\ E.tickets = D.tickets /\ E.transactions = D.transactions
  /\ E.ticket_types = D.ticket_types /\ E.events = D.events
  /\ E.next_id = D.next_id

\* C30: leave by entry id or by (event, user) deletes the matching waitlist
\* entry when it exists and otherwise fails with NotFound; in both cases
\* tickets, transactions, counters and all other waitlist entries are
\* unchanged, also when the deleted entry carries an outstanding offer.
C30_LeaveEffects ==
  /\ \A id \in 1 .. MaxWaitlistId + 1 :
        LET r == LeaveByIdHandler(DB, id)
            mine == {w \in waitlist : w.id = id}
        IN /\ SameButWaitlist(DB, r.db)
           /\ r.db.waitlist = waitlist \ mine
           /\ mine # {} => r.resp.code = 200
           /\ mine = {} => (r.resp.code = 404 /\ r.resp.err = "NotFound")
  /\ \A e \in Events, u \in Users :
        LET r == LeaveByUserHandler(DB, e, u)
            mine == {w \in waitlist : w.user_id = u /\ w.event_id = e}
        IN /\ SameButWaitlist(DB, r.db)
           /\ r.db.waitlist = waitlist \ mine
           /\ mine # {} => r.resp.code = 200
           /\ mine = {} => (r.resp.code = 404 /\ r.resp.err = "NotFound")

\* A user has left while holding an offer, another user is still waiting,
\* and the offer is still there.
C30_Witness ==
  /\ last.op = "leave_user" /\ last.code = 200
  /\ EntriesOf(waitlist, last.caller, last.arg) = {}
  /\ OffersTo(last.caller, last.arg) # {}
  /\ waitlist # {}

\* A leave by id has deleted an entry; a leave has found nothing to delete.
C30_WitnessById ==
  /\ last.op = "leave" /\ last.code = 200
  /\ ~HasId(waitlist, last.arg)

C30_WitnessNotFound ==
  /\ last.op \in {"leave", "leave_user"} /\ last.code = 404


\* --------------------------------------------------- C31: positions
\* ranked_waitlist: ROW_NUMBER() OVER (PARTITION BY w.event_id ORDER BY
\* w.joined_at ASC) over the whole waitlist table
RankedWaitlist(wl) ==
  {[id |-> w.id, user_id |-> w.user_id, event_id |-> w.event_id,
    joined_at |-> w.joined_at,
    position |-> Cardinality({o \in wl : /\ o.event_id = w.event_id
                                         /\ o.joined_at <= w.joined_at})]
     : w \in wl}

\* GET /waitlist/user/:user_id
UserWaitlistHandler(D, user) ==
  {rw \in RankedWaitlist(D.waitlist) : rw.user_id = user}

\* An entry of another event that joined before every entry of wl.
ForeignEntry ==
  [id |-> 0, user_id |-> 1, event_id |-> 2, joined_at |-> 0,
   offered_at |-> NULL, reservation_expires_at |-> NULL]

\* The entries of w's event that joined before w.
EarlierEntries(wl, w) ==
  {o \in wl : o.event_id = w.event_id /\ o.joined_at < w.joined_at}

\* The query answers one row per entry of the user, with the entry's rank.
QueryRanks(D) ==
  \A w \in D.waitlist :
     LET rows == {rw \in UserWaitlistHandler(D, w.user_id) : rw.id = w.id}
     IN /\ Cardinality(rows) = 1
        /\ \A rw \in rows :
              rw.position = 1 + Cardinality(EarlierEntries(D.waitlist, w))

\* C31: the position returned for a user's entry is 1 plus the number of
\* entries of the same event with an earlier join time, counted over all
\* current entries of the event regardless of ticket type and of whether
\* those entries are claimed; the position returned by join equals the
\* position a subsequent query returns when no entry changed in between.
C31_Position ==
  /\ QueryRanks(DB)
  /\ QueryRanks([DB EXCEPT !.waitlist = @ \cup {ForeignEntry}])
  /\ \A u \in Joiners, e \in Events :
        LET r == JoinHandler(DB, u, e, now)
        IN (r.resp.code = 201 /\ ~r.resp.offered) =>
             /\ r.resp.val =
                  1 + Cardinality(EarlierEntries(waitlist, NewEntry(DB, u, e)))
             /\ \A rw \in UserWaitlistHandler(r.db, u) :
                   rw.event_id = e => rw.position = r.resp.val
             /\ \E rw \in UserWaitlistHandler(r.db, u) : rw.event_id = e

\* A join has answered position 2 behind an entry that holds an offer, and
\* the query answers the same.
C31_Witness ==
  /\ last.op = "join" /\ last.code = 201 /\ ~last.offered /\ last.val = 2
  /\ \E w \in waitlist : w.offered_at # NULL /\ w.user_id # last.caller
  /\ \E rw \in UserWaitlistHandler(DB, last.caller) : rw.position = 2


\* ------------------------------------------------- C32: what a pass does
\* The waitlist entries of the ticket's owner for the ticket's event whose
\* expiry timestamp is strictly earlier than t.
DueEntries(D, tk, t) ==
  {w \in D.waitlist : /\ w.user_id = tk.user_id /\ w.event_id = tk.event_id
                      /\ w.reservation_expires_at # NULL
                      /\ w.reservation_expires_at < t}

\* The reserved tickets of D whose transaction is pending.
Reservations(D) ==
  {tk \in D.tickets :
     /\ tk.status = "reserved"
     /\ \E tx \in D.transactions :
           tx.id = tk.transaction_id /\ tx.status = "pending"}

\* C32: a sweep pass selects exactly the reserved tickets whose transaction
\* is pending and whose owner's waitlist entry for the event has an expiry
\* timestamp strictly earlier than now, and for each selected ticket sets
\* the transaction to expired, deletes the reserved ticket, deletes that
\* waitlist entry, and invokes assignTicketToWaitlist for the ticket's event
\* and type; reservations that are not yet expired are left unchanged.
C32_SweepPass ==
  LET due == {tk \in Reservations(DB) : DueEntries(DB, tk, now) # {}}
  IN \A rows \in Orders(ExpiredRows(DB, now)) :
        LET r == SweepHandler(DB, rows, now)
        IN /\ {rows[i].ticket : i \in 1 .. Len(rows)} = due
           /\ \A i \in 1 .. Len(rows) :
                 rows[i].waitlist_id \in
                    {w.id : w \in DueEntries(DB, rows[i].ticket, now)}
           /\ Len(r.resp.asg) = Len(rows)
           /\ \A i \in 1 .. Len(rows) :
                 LET tk == rows[i].ticket
                 IN /\ \E tx \in r.db.transactions :
                          tx.id = tk.transaction_id /\ tx.status = "expired"
                    /\ ~HasId(r.db.tickets, tk.id)
                    /\ ~HasId(r.db.waitlist, rows[i].waitlist_id)
                    /\ r.resp.asg[i].event_id = tk.event_id
                    /\ r.resp.asg[i].ticket_type_id = tk.ticket_type_id
           /\ \A tk \in Reservations(DB) \ due :
                 /\ tk \in r.db.tickets
                 /\ \A tx \in transactions :
                       tx.id = tk.transaction_id => tx \in r.db.transactions
                 /\ \A w \in waitlist :
                       (/\ w.user_id = tk.user_id /\ w.event_id = tk.event_id
                        /\ w.reservation_expires_at # NULL)
                          => w \in r.db.waitlist

\* A pass has expired one reservation at the very minute another one's
\* window ends, and left that one alone.
C32_Witness ==
  /\ last.op = "sweep" /\ last.val > 0
  /\ \E tx \in transactions : tx.status = "expired"
  /\ \E tk \in Reservations(DB), w \in waitlist :
        /\ w.user_id = tk.user_id /\ w.event_id = tk.event_id
        /\ w.reservation_expires_at = now


\* ------------------------------------------------- C33: what a join does
\* The event's tickets in pending_return.
ReturnedTickets(D, ev) ==
  {tk \in D.tickets : tk.event_id = ev /\ tk.status = "pending_return"}

\* C33: a join that passes the duplicate, sold-out and event-ended checks
\* while at least one pending_return ticket exists for the event creates a
\* pending waitlist transaction and a reserved ticket of the oldest
\* pending_return ticket's type for the joiner, priced at that type's price,
\* and creates no waitlist entry; otherwise it creates exactly one unclaimed
\* waitlist entry and no ticket or transaction.
C33_JoinEffects ==
  \A u \in Joiners, e \in Events :
     JoinErrors(DB, u, e, now) = {} =>
        LET r == JoinHandler(DB, u, e, now)
            ret == ReturnedTickets(DB, e)
            newtx == r.db.transactions \ transactions
            newtk == r.db.tickets \ tickets
            newwl == r.db.waitlist \ waitlist
        IN /\ r.resp.code = 201
           /\ transactions \subseteq r.db.transactions
           /\ tickets \subseteq r.db.tickets
           /\ waitlist \subseteq r.db.waitlist
           /\ r.db.ticket_types = ticket_types /\ r.db.events = events
           /\ IF ret # {}
              THEN /\ Cardinality(newtx) = 1 /\ Cardinality(newtk) = 1
                   /\ newwl = {}
                   /\ \A tx \in newtx, tk \in newtk, old \in ret :
                         (\A o \in ret : old.id <= o.id) =>
                           /\ tx.status = "pending"
                           /\ tx.payment_method = "waitlist"
                           /\ tx.user_id = u
                           /\ tx.total_price = ticket_types[old.ticket_type_id].price
                           /\ tk.status = "reserved"
                           /\ tk.user_id = u /\ tk.event_id = e
                           /\ tk.transaction_id = tx.id
                           /\ tk.ticket_type_id = old.ticket_type_id
              ELSE /\ newtx = {} /\ newtk = {}
                   /\ Cardinality(newwl) = 1
                   /\ \A w \in newwl :
                         /\ w.user_id = u /\ w.event_id = e
                         /\ w.offered_at = NULL
                         /\ w.reservation_expires_at = NULL

\* A join has been answered with an offer of the older of two returned
\* tickets of different types.
C33_Witness ==
  /\ last.op = "join" /\ last.code = 201 /\ last.offered
  /\ \E a, b \in ReturnedTickets(DB, last.arg) :
        /\ a.id < b.id /\ a.ticket_type_id # b.ticket_type_id
        /\ \E tk \in tickets :
              /\ tk.transaction_id = last.val /\ tk.status = "reserved"
              /\ tk.ticket_type_id = a.ticket_type_id
  /\ EntriesOf(waitlist, last.caller, last.arg) = {}

\* A join has created an entry.
C33_WitnessEntry ==
  /\ last.op = "join" /\ last.code = 201 /\ ~last.offered
  /\ \E w \in EntriesOf(waitlist, last.caller, last.arg) : w.offered_at = NULL


\* ------------------------------------------- C34, C35: status lifecycles
TerminalStatuses == {"completed", "cancelled", "expired", "refunded"}

\* C34: once a transaction's status is completed, cancelled, expired or
\* refunded it never changes again under any sequence or interleaving of
\* accept, decline, sweep and refund operations; the only status change the
\* sweep makes is pending to expired.
C34_TerminalStatusFinal ==
  [][\A tx \in transactions :
        tx.status \in TerminalStatuses =>
           \E n \in transactions' : n.id = tx.id /\ n.status = tx.status
    ]_vars


TicketMoves ==
  {<<"active", "pending_return">>, <<"active", "refunded">>,
   <<"reserved", "active">>, <<"pending_return", "refunded">>}

\* C35: under any sequence or interleaving of return, refund, accept,
\* decline and sweep operations, a ticket's status changes only along active
\* to pending_return, active to refunded, reserved to active and
\* pending_return to refunded, a reserved ticket is otherwise only deleted,
\* and a refunded ticket never changes status again.
C35_TicketLifecycle ==
  [][\A tk \in tickets :
        \/ \E n \in tickets' :
              /\ n.id = tk.id
              /\ \/ n.status = tk.status
                 \/ <<tk.status, n.status>> \in TicketMoves
        \/ /\ tk.status = "reserved"
           /\ ~HasId(tickets', tk.id)
    ]_vars


\* -------------------------- concurrent refunds of one ticket (SpecRace)
\* Both refund routes read the ticket, check it, and then write with plain
\* pool.query calls: no transaction, no lock, and no status condition on the
\* UPDATEs.  Requests overlap statement by statement.
RaceProcs == 1 .. NumRefunds

InitRace ==
  /\ Init!1 /\ Init!2 /\ Init!3 /\ Init!4 /\ Init!5 /\ Init!6 /\ Init!7 /\ Init!8
  /\ procs = [p \in RaceProcs |-> IdleRefund]

NoRaceRunning == \A p \in RaceProcs : procs[p].pc = "idle"

\* ticketCheck and the checks of PUT /tickets/:id/organizer-refund
OrganizerBegin(p, id, caller) ==
  /\ procs[p].pc = "idle"
  /\ LET r == OrganizerRefundHandler(DB, id, caller, now)
     IN IF r.resp.code # 200
        THEN /\ last' = r.resp
             /\ UNCHANGED procs
        ELSE LET ticket == RowById(tickets, id)
             IN /\ procs' = [procs EXCEPT ![p] =
                      [pc |-> "run", step |-> 0, ticket |-> ticket,
                       caller |-> caller,
                       isSoldOut |-> IsSoldOut(events[ticket.event_id]),
                       before |-> DB]]
                /\ UNCHANGED last
  /\ UNCHANGED <<tickets, transactions, waitlist, ticket_types, events,
                 next_id, now>>

\* ticketCheck and the checks of PUT /tickets/:id/refund
SelfBegin(p, id, caller) ==
  /\ procs[p].pc = "idle"
  /\ LET r == SelfRefundHandler(DB, id, caller, now)
     IN IF r.resp.code # 200
        THEN /\ last' = r.resp
             /\ UNCHANGED procs
        ELSE LET ticket == RowById(tickets, id)
             IN /\ procs' = [procs EXCEPT ![p] =
                      [pc |-> "self", step |-> 0, ticket |-> ticket,
                       caller |-> caller, isSoldOut |-> TRUE,
                       before |-> DB]]
                /\ UNCHANGED last
  /\ UNCHANGED <<tickets, transactions, waitlist, ticket_types, events,
                 next_id, now>>

\* UPDATE tickets SET status = 'pending_return' WHERE id = $1
SelfStep(p) ==
  /\ procs[p].pc = "self"
  /\ procs[p].step = 0
  /\ Store(SetTicketStatus(DB, procs[p].ticket.id, "pending_return"))
  /\ procs' = [procs EXCEPT ![p].step = 1]
  /\ UNCHANGED <<now, last>>

\* assignTicketToWaitlist and the response of the self-service return
SelfCascade(p) ==
  /\ procs[p].pc = "self"
  /\ procs[p].step = 1
  /\ LET me == procs[p]
         a == assignTicketToWaitlist(DB, me.ticket.event_id,
                                     me.ticket.ticket_type_id, now, {})
     IN /\ Fits(a.db)
        /\ Store(a.db)
        /\ last' = [Resp("refund", me.ticket.id, me.caller, 200, "")
                      EXCEPT !.assigned = a.res.assigned, !.asg = <<a.res>>]
  /\ procs' = [procs EXCEPT ![p].pc = "done"]
  /\ UNCHANGED now

NextRace ==
  \/ \E p \in RaceProcs, id \in TicketIds, c \in Callers : OrganizerBegin(p, id, c)
  \/ \E p \in RaceProcs, id \in TicketIds, c \in Callers : SelfBegin(p, id, c)
  \/ \E p \in RaceProcs : RefundStep(p)
  \/ \E p \in RaceProcs : RefundCascade(p)
  \/ \E p \in RaceProcs : SelfStep(p)
  \/ \E p \in RaceProcs : SelfCascade(p)
  \/ \E p \in RaceProcs : RefundEnd(p)
  \/ /\ NoRaceRunning
     /\ \A tk \in tickets : tk.status = "active"
     /\ \E u \in Buyers, e \in Events, tt \in TicketTypes, q \in Quantities :
           Purchase(u, e, tt, q)
  \/ /\ NoRaceRunning
     /\ \E u \in Joiners, e \in Events : Join(u, e)

SpecRace == InitRace /\ [][NextRace]_vars


\* The open offers of D: pending waitlist transactions.
OpenOffers(D) ==
  {tx \in D.transactions :
     tx.status = "pending" /\ tx.payment_method = "waitlist"}

\* C39: when two organizer refund requests (or an organizer refund and a
\* self-service return) for the same active ticket execute concurrently, the
\* ticket is refunded once: the ticket-type and event sold counters decrease
\* by at most one in total, at most one offer is cascaded, and the ticket
\* does not end in pending_return after having been refunded.
C39_RefundedOnce ==
  \A p, q \in DOMAIN procs :
     (/\ p # q
      /\ procs[p].pc = "done" /\ procs[q].pc = "done"
      /\ procs[p].step = 4
      /\ procs[q].ticket.id = procs[p].ticket.id)
       => LET B == procs[p].before
              tk == procs[p].ticket
          IN /\ events[tk.event_id].tickets_sold
                  >= B.events[tk.event_id].tickets_sold - 1
             /\ ticket_types[tk.ticket_type_id].tickets_sold
                  >= B.ticket_types[tk.ticket_type_id].tickets_sold - 1
             /\ Cardinality(OpenOffers(DB)) <= Cardinality(OpenOffers(B)) + 1
             /\ RowById(tickets, tk.id).status = "refunded"


\* ------------------------------------------------ C36: capacity of a type
\* C36: in every reachable state, for each ticket type the number of tickets
\* held for entry (status active or pending_return) is at most the type's
\* total capacity, after any sequence of purchase, organizer refund of a
\* sold-out event, ordinary purchase of the freed capacity, and accept of the
\* offer created by that refund.
C36_HeldWithinCapacity ==
  \A tt \in TicketTypes :
     Cardinality(TicketsOf(tt, {"active", "pending_return"}))
        <= ticket_types[tt].total_tickets


\* ------------------------------ concurrent accepts (SpecAccept, C37)
\* POST /waitlist/accept-ticket/:transaction_id is a series of plain
\* pool.query calls: the checks and the SELECT of the oldest pending_return
\* ticket read the committed rows, the UPDATEs and the INSERT follow with no
\* lock held and no condition on what was read.
AcceptProcs == 1 .. NumAccepts

IdleAccept == [pc |-> "idle", tx_id |-> 0, ticket |-> 0, user_id |-> 0,
               pending |-> {}]

\* Ids for two offers and the compensating transactions of two accepts each.
FitsAccept(D) ==
  /\ D.next_id.ticket <= MaxAcceptTicketId + 1
  /\ D.next_id.tx <= MaxAcceptTxId + 1
  /\ D.next_id.wl <= MaxWaitlistId + 1

DoAccept(r) ==
  /\ FitsAccept(r.db)
  /\ Store(r.db)
  /\ last' = r.resp
  /\ UNCHANGED <<now, procs>>

InitAccept ==
  /\ \E q \in 1 .. 2 :
        LET D == SoldOutEvent(q)
        IN /\ tickets = D.tickets
           /\ transactions = D.transactions
           /\ waitlist = D.waitlist
           /\ ticket_types = D.ticket_types
           /\ events = D.events
           /\ next_id = D.next_id
  /\ now = 0
  /\ last = Resp("init", 0, 0, 0, "")
  /\ procs = [p \in AcceptProcs |-> IdleAccept]

NoAcceptRunning == \A p \in AcceptProcs : procs[p].pc = "idle"

\* txResult, ticketResult, the expiry check and pendingReturnTicket; a
\* request that is rejected (or finds its offer expired) ends here.
AcceptRead(p, x) ==
  /\ procs[p].pc = "idle"
  /\ LET r == AcceptHandler(DB, x, now)
     IN IF r.resp.code # 200
        THEN /\ FitsAccept(r.db)
             /\ Store(r.db)
             /\ last' = r.resp
             /\ UNCHANGED procs
        ELSE LET ticket == CHOOSE tk \in ReservedTicket(DB, x) : TRUE
                 transaction == CHOOSE tx \in PendingOffer(DB, x) : TRUE
             IN /\ procs' = [procs EXCEPT ![p] =
                      [pc |-> "read", tx_id |-> x, ticket |-> ticket,
                       user_id |-> transaction.user_id,
                       pending |-> OldestPendingReturn(
                          {tk \in tickets :
                             /\ tk.event_id = ticket.event_id
                             /\ tk.ticket_type_id = ticket.ticket_type_id})]]
                /\ UNCHANGED <<tickets, transactions, waitlist, ticket_types,
                               events, next_id, last>>
  /\ UNCHANGED now

\* UPDATE transactions, UPDATE tickets, the refund of the ticket read
\* earlier, DELETE FROM waitlist, and the response.
AcceptWrite(p) ==
  /\ procs[p].pc = "read"
  /\ LET me == procs[p]
         resp == Resp("accept", me.tx_id, 0, 200, "")
         D1 == SetTxStatus(DB, me.tx_id, "completed")
         D2 == SetTicketStatus(D1, me.ticket.id, "active")
     IN IF me.pending # {}
        THEN LET rt == CHOOSE tk \in me.pending : TRUE
                 price == RowById(transactions, rt.transaction_id).total_price
                 D3 == RefundReturned(D2, rt)
                 D4 == DeleteEntries(D3, me.user_id, me.ticket.event_id)
             IN /\ FitsAccept(D4)
                /\ Store(D4)
                /\ last' = [resp EXCEPT !.val = RefundAmount(price),
                                        !.fee = PlatformFee(price)]
        ELSE /\ Store(DeleteEntries(D2, me.user_id, me.ticket.event_id))
             /\ last' = resp
  /\ procs' = [procs EXCEPT ![p] = IdleAccept]
  /\ UNCHANGED now

NextAccept ==
  \/ \E p \in AcceptProcs, x \in 1 .. MaxAcceptTxId : AcceptRead(p, x)
  \/ \E p \in AcceptProcs : AcceptWrite(p)
  \/ /\ NoAcceptRunning
     /\ \E id \in 1 .. MaxAcceptTicketId, c \in Callers :
           DoAccept(SelfRefundHandler(DB, id, c, now))
  \/ /\ NoAcceptRunning
     /\ \E u \in Joiners, e \in Events : DoAccept(JoinHandler(DB, u, e, now))
  \/ /\ NoAcceptRunning
     /\ Tick

SpecAccept == InitAccept /\ [][NextAccept]_vars

\* C37: each ticket that reaches pending_return is refunded at most once and
\* has at most one compensating waitlist_return transaction, including when
\* two accepts (of the same transaction, or of two different offers for the
\* same event and type) execute concurrently; two concurrent accepts for a
\* type with two pending_return tickets refund two distinct tickets.  Only
\* accepts refund tickets here, so there are never more compensating
\* transactions than refunded tickets.
C37_RefundedAtMostOnce ==
  Cardinality({tx \in transactions : tx.payment_method = "waitlist_return"})
    <= Cardinality({tk \in tickets : tk.status = "refunded"})


\* ----------------------------------------- C38: the size of the refund
\* C38: the amount refunded to the owner of a displaced pending_return
\* ticket never exceeds the price paid for that one ticket, also when the
\* ticket came from a purchase transaction that bought several tickets at
\* once.  (The price of a ticket is its type's price; prices never change.)
C38_RefundWithinPrice ==
  [][Accepted =>
       \A rt \in tickets :
          (/\ rt.status = "pending_return"
           /\ \E n \in tickets' : n.id = rt.id /\ n.status = "refunded")
            => /\ last'.val <= ticket_types[rt.ticket_type_id].price
               /\ \A tx \in transactions' :
                     (tx.payment_method = "waitlist_return"
                      /\ ~HasId(transactions, tx.id))
                        => 0 - tx.total_price
                             <= ticket_types[rt.ticket_type_id].price
  ]_vars

====
